---------------------------- MODULE Spec2Model ----------------------------
(***************************************************************************)
(* A model of the LSPK archive reader of BG3-Load-Order-Sort               *)
(* (src/genmoddata.py, class BG3PakReader).                                *)
(*                                                                         *)
(* Bytes are the integers 0..255 and a buffer is a sequence of bytes.      *)
(* Python offsets are 0-based and slices are half-open; Slice(data, a, b)  *)
(* is data[a:b].  Unsigned 32/64-bit fields do not fit the integers of the *)
(* model checker, so a decoded field is kept exactly as three limbs        *)
(* (24 + 24 + 16 bits): value = l0 + 2^24 * l1 + 2^48 * l2.                *)
(* A Python exception is the field exc of an operator's result; a          *)
(* try/except in the source is the place where exc is turned into a value. *)
(***************************************************************************)
EXTENDS Integers, Sequences, FiniteSets, TLC

VARIABLES
    disk,        \* the content of the file at pak_path (a buffer)
    readable,    \* whether open(pak_path, 'rb') succeeds
    HAS_LZ4,     \* module flag: the lz4 library was imported
    header,      \* self.header: <<>> is None, <<h>> a PackageHeader
    files,       \* self.files: the list of FileEntry
    call,        \* the last public call: its name, argument and outcome
    nreads,      \* how often this reader has decoded a directory (line 376)
    nwrites,     \* how often the environment replaced the file
    pc,          \* where extract_mod_data is: "idle" before a call,
                 \* "scan" in the loop of line 640, "export" at line 652,
                 \* "returned" or "raised" after the call
    pak_folder,  \* the entries of the folder passed to the call
    todo,        \* the .pak files the loop has not processed yet; the
                 \* first of them is the file on disk
    mod_info_list, \* the list bound to the default argument of line 636
    mods_data,   \* the keys of mods_data.json, in the order written
    ncalls,      \* how many calls of extract_mod_data have begun
    appended,    \* the records the current call has appended, each with
                 \* the kind of the archive it came from
    xml,         \* modsettings.lsx: the nodes under Mods/children, in order
    txt,         \* loadorder.txt: the categorization it holds, <<>> if empty
    groq,        \* ask_groq: where it is, the attempts made, the best result
    sort,        \* the last call of loadordersort.py: its name, the document
                 \* before it and the nodes it planned to move
    mod_items,   \* ModManagerGUI.mod_items
    xml_nodes,   \* ModManagerGUI.xml_nodes
    command_history,        \* ModManagerGUI.command_history
    current_command_index,  \* ModManagerGUI.current_command_index
    ui           \* the last call of the window: its name and the two lists
                 \* before it; the lists loaded from the file

batch_vars == <<pc, pak_folder, todo, mod_info_list, mods_data, ncalls, appended>>

pak_vars == <<disk, readable, HAS_LZ4, header, files, call, nreads, nwrites>>

sort_vars == <<xml, txt, groq, sort>>

ui_vars == <<mod_items, xml_nodes, command_history, current_command_index, ui>>

vars == <<disk, readable, HAS_LZ4, header, files, call, nreads, nwrites,
          pc, pak_folder, todo, mod_info_list, mods_data, ncalls, appended,
          xml, txt, groq, sort,
          mod_items, xml_nodes, command_history, current_command_index, ui>>

---------------------------------------------------------------------------
(* Exact unsigned integers                                                 *)

Limb == 4096 * 4096

Min(a, b) == IF a < b THEN a ELSE b

Max(a, b) == IF a > b THEN a ELSE b

Num(n) == [l0 |-> n % Limb, l1 |-> n \div Limb, l2 |-> 0]

Small(v) == v.l1 = 0 /\ v.l2 = 0

Val(v) == v.l0

IsZero(v) == v.l0 = 0 /\ v.l1 = 0 /\ v.l2 = 0

\* v > n and v + k > n for a buffer length or small count n
Gt(v, n) == ~Small(v) \/ v.l0 > n

AddInt(v, k) ==
    LET s0 == v.l0 + k
        s1 == v.l1 + (s0 \div Limb)
    IN  [l0 |-> s0 % Limb, l1 |-> s1 % Limb, l2 |-> v.l2 + (s1 \div Limb)]

\* the value fits a C int (lz4's uncompressed_size argument)
INT_MAX_l1 == 2^7

FitsCInt(v) == v.l2 = 0 /\ v.l1 < INT_MAX_l1

\* the value fits a signed 64-bit file offset (off_t)
OFF_MAX_l2 == 2^15

FitsOffT(v) == v.l2 < OFF_MAX_l2

---------------------------------------------------------------------------
(* struct and slices                                                       *)

Slice(data, a, b) == SubSeq(data, a + 1, Min(b, Len(data)))

\* struct.unpack('<I', b)[0] for a 4-byte b
U32(b) == [l0 |-> b[1] + 256 * b[2] + 65536 * b[3], l1 |-> b[4], l2 |-> 0]

\* struct.unpack('<Q', b)[0] for an 8-byte b
U64(b) ==
    [l0 |-> b[1] + 256 * b[2] + 65536 * b[3],
     l1 |-> b[4] + 256 * b[5] + 65536 * b[6],
     l2 |-> b[7] + 256 * b[8]]

\* struct.unpack raises struct.error unless the slice has the exact width
CanUnpack(b, width) == Len(b) = width

\* struct.pack('<I', n) and struct.pack('<Q', n) of a limb value
P32(v) ==
    <<v.l0 % 256, (v.l0 \div 256) % 256, v.l0 \div 65536, v.l1 % 256>>

P64(v) ==
    <<v.l0 % 256, (v.l0 \div 256) % 256, v.l0 \div 65536,
      v.l1 % 256, (v.l1 \div 256) % 256, v.l1 \div 65536,
      v.l2 % 256, v.l2 \div 256>>

Zeros(n) == [i \in 1..n |-> 0]

\* LSPK_SIGNATURE = 0x4B50534C, the bytes 'L' 'S' 'P' 'K'
LSPK_BYTES == <<76, 83, 80, 75>>

LSPK_SIGNATURE == U32(LSPK_BYTES)

---------------------------------------------------------------------------
(* Headers                                                                 *)

PackageHeader(sig, ver, flo, fls, nf, doff) ==
    [signature |-> sig, version |-> ver, file_list_offset |-> flo,
     file_list_size |-> fls, num_files |-> nf, data_offset |-> doff]

Raise == [exc |-> TRUE, header |-> <<>>]

V13_MIN_FILE == 12
V13_MIN_HEADER == 28
V10_MIN_FILE == 32
V10_DATA_OFFSET == 280

\* _read_header_v13_plus: header at the end of the file
_read_header_v13_plus(data) ==
    IF Len(data) < V13_MIN_FILE THEN Raise
    ELSE
    LET Decode(n, header_size, signature) ==
            IF signature # LSPK_SIGNATURE THEN Raise
            ELSE IF Gt(header_size, n) THEN Raise     \* header_offset < 0
            ELSE
            LET Parse(header_data) ==
                    IF Len(header_data) < V13_MIN_HEADER THEN Raise
                    ELSE [exc |-> FALSE,
                          header |-> <<PackageHeader(
                              signature,
                              U32(Slice(header_data, 0, 4)),
                              U64(Slice(header_data, 4, 12)),
                              U32(Slice(header_data, 12, 16)),
                              U32(Slice(header_data, 20, 24)),
                              Num(0))>>]
            IN  Parse(Slice(data, n - Val(header_size), n - 8))
    IN  Decode(Len(data), U32(Slice(data, Len(data) - 8, Len(data) - 4)),
               U32(Slice(data, Len(data) - 4, Len(data))))

\* _read_header_v10: header at the beginning of the file
_read_header_v10(data) ==
    IF Len(data) < V10_MIN_FILE THEN Raise
    ELSE
    LET signature == U32(Slice(data, 0, 4))
    IN  IF signature # LSPK_SIGNATURE THEN Raise
        ELSE [exc |-> FALSE,
              header |-> <<PackageHeader(
                  signature,
                  U32(Slice(data, 4, 8)),
                  U64(Slice(data, 8, 16)),
                  U32(Slice(data, 16, 20)),
                  U32(Slice(data, 28, 32)),
                  Num(V10_DATA_OFFSET))>>]

---------------------------------------------------------------------------
(* The lz4 library (imported at lines 9-14), modelled by its data formats: *)
(* an LZ4 block is a list of sequences (token, literals, match offset,     *)
(* match length) whose last sequence holds literals only; a frame is the   *)
(* magic number, a frame descriptor, size-prefixed blocks and an end mark. *)

Fail == [ok |-> FALSE, out |-> <<>>]

\* a length nibble of 15 is continued by bytes that are added until one is
\* below 255; j is the 0-based position of the next unread byte
RECURSIVE Lz4ReadLen(_, _, _)
Lz4ReadLen(src, j, acc) ==
    IF j >= Len(src) THEN [ok |-> FALSE, len |-> 0, next |-> j]
    ELSE IF src[j + 1] = 255 THEN Lz4ReadLen(src, j + 1, acc + 255)
    ELSE [ok |-> TRUE, len |-> acc + src[j + 1], next |-> j + 1]

Lz4Len(src, j, nibble) ==
    IF nibble = 15 THEN Lz4ReadLen(src, j, 15)
    ELSE [ok |-> TRUE, len |-> nibble, next |-> j]

\* the match copy: mlen bytes starting offset bytes back, overlapping
Lz4Match(out, offset, mlen) ==
    LET n == Len(out)
    IN  out \o [k \in 1..mlen |-> out[n - offset + 1 + ((k - 1) % offset)]]

\* the limits the decoder of the lz4 library enforces near the ends of
\* its buffers (LASTLITERALS, MFLIMIT, and offset + token + LASTLITERALS)
LZ4_LASTLITERALS == 2 + 3
LZ4_MFLIMIT == 2 * 6
LZ4_END_INPUT == 2 + 1 + LZ4_LASTLITERALS

\* cap is the capacity of the destination buffer (an Int, or -1 for none)
RECURSIVE Lz4BlockDecode(_, _, _, _)
Lz4BlockDecode(src, i, out, cap) ==
    IF i >= Len(src) THEN Fail
    ELSE
    LET Literals(token, ll) ==
            IF ~ll.ok \/ ll.next + ll.len > Len(src) THEN Fail
            ELSE
            LET Sequence(out1, j) ==
                    IF cap >= 0 /\ Len(out1) > cap THEN Fail
                    ELSE IF j = Len(src) THEN [ok |-> TRUE, out |-> out1]
                    \* literals that end within LZ4_END_INPUT bytes of the
                    \* input or within LZ4_MFLIMIT bytes of the capacity
                    \* must be the last
                    ELSE IF j > Len(src) - LZ4_END_INPUT THEN Fail
                    ELSE IF cap >= 0 /\ Len(out1) > cap - LZ4_MFLIMIT THEN Fail
                    ELSE
                    LET Match(offset, ml) ==
                            IF offset = 0 \/ offset > Len(out1) \/ ~ml.ok THEN Fail
                            \* a match leaves room for LZ4_LASTLITERALS literals
                            ELSE IF cap >= 0
                                    /\ Len(out1) + ml.len + 4 > cap - LZ4_LASTLITERALS
                                 THEN Fail
                            ELSE Lz4BlockDecode(src, ml.next,
                                                Lz4Match(out1, offset, ml.len + 4),
                                                cap)
                    IN  Match(src[j + 1] + 256 * src[j + 2],
                              Lz4Len(src, j + 2, token % 16))
            IN  Sequence(out \o Slice(src, ll.next, ll.next + ll.len),
                         ll.next + ll.len)
    IN  Literals(src[i + 1], Lz4Len(src, i + 1, src[i + 1] \div 16))

\* lz4.block.decompress(source, uncompressed_size=size): the size is an
\* upper bound of the output and must fit a C int
lz4_block_decompress_sized(source, size) ==
    IF ~FitsCInt(size) THEN Fail
    ELSE Lz4BlockDecode(source, 0, <<>>, IF Small(size) THEN Val(size) ELSE -1)

\* lz4.block.decompress(source): the first 4 bytes hold the exact output size
lz4_block_decompress(source) ==
    IF Len(source) < 4 THEN Fail
    ELSE
    LET Sized(size) ==
            IF ~FitsCInt(size) \/ ~Small(size) THEN Fail
            ELSE
            LET Exact(r) == IF r.ok /\ Len(r.out) = Val(size) THEN r ELSE Fail
            IN  Exact(Lz4BlockDecode(Slice(source, 4, Len(source)), 0, <<>>,
                                     Val(size)))
    IN  Sized(U32(Slice(source, 0, 4)))

LZ4_FRAME_MAGIC == <<4, 34, 77, 24>>

\* the frame descriptor FLG BD HC of a frame of independent blocks of at
\* most 64 KB with no checksums and no content size
LZ4_FRAME_DESCRIPTOR == <<96, 64, 130>>

LZ4_FRAME_BLOCK_MAX == 2^16

RECURSIVE Lz4FrameBlocks(_, _, _)
Lz4FrameBlocks(src, p, out) ==
    IF p + 4 > Len(src) THEN Fail
    ELSE
    LET FrameBlock(word, bsize) ==
            IF IsZero(U32(word)) THEN [ok |-> TRUE, out |-> out]
            ELSE IF ~Small(bsize) \/ p + 4 + Val(bsize) > Len(src) THEN Fail
            ELSE
            LET Continue(r) ==
                    IF ~r.ok THEN Fail
                    ELSE Lz4FrameBlocks(src, p + 4 + Val(bsize), out \o r.out)
                Body(body) ==
                    Continue(IF word[4] >= 128 THEN [ok |-> TRUE, out |-> body]
                         ELSE Lz4BlockDecode(body, 0, <<>>, LZ4_FRAME_BLOCK_MAX))
            IN  Body(Slice(src, p + 4, p + 4 + Val(bsize)))
        Word(word) ==
            FrameBlock(word, U32(<<word[1], word[2], word[3], word[4] % 128>>))
    IN  Word(Slice(src, p, p + 4))

\* lz4.frame.decompress(data)
lz4_frame_decompress(data) ==
    IF Len(data) < 7 THEN Fail
    ELSE IF Slice(data, 0, 4) # LZ4_FRAME_MAGIC THEN Fail
    ELSE IF Slice(data, 4, 7) # LZ4_FRAME_DESCRIPTOR THEN Fail
    ELSE Lz4FrameBlocks(data, 7, <<>>)

---------------------------------------------------------------------------
(* UTF-8                                                                   *)

IsCont(b) == b >= 128 /\ b <= 191

\* the length of the well-formed UTF-8 sequence that starts at the 1-based
\* position i of b, or 0 when none starts there
Utf8SeqLen(b, i) ==
    LET n == Len(b)
        b0 == b[i]
        c(k) == i + k <= n /\ IsCont(b[i + k])
        r(k, lo, hi) == i + k <= n /\ b[i + k] >= lo /\ b[i + k] <= hi
    IN  IF b0 < 128 THEN 1
        ELSE IF b0 >= 194 /\ b0 <= 223 THEN (IF c(1) THEN 2 ELSE 0)
        ELSE IF b0 = 224 THEN (IF r(1, 160, 191) /\ c(2) THEN 3 ELSE 0)
        ELSE IF b0 = 237 THEN (IF r(1, 128, 159) /\ c(2) THEN 3 ELSE 0)
        ELSE IF b0 >= 225 /\ b0 <= 239 THEN (IF c(1) /\ c(2) THEN 3 ELSE 0)
        ELSE IF b0 = 240 THEN (IF r(1, 144, 191) /\ c(2) /\ c(3) THEN 4 ELSE 0)
        ELSE IF b0 >= 241 /\ b0 <= 243 THEN (IF c(1) /\ c(2) /\ c(3) THEN 4 ELSE 0)
        ELSE IF b0 = 244 THEN (IF r(1, 128, 143) /\ c(2) /\ c(3) THEN 4 ELSE 0)
        ELSE 0

Utf8CodePoint(b, i, k) ==
    IF k = 1 THEN b[i]
    ELSE IF k = 2 THEN (b[i] % 32) * 64 + (b[i + 1] % 64)
    ELSE IF k = 3 THEN (b[i] % 16) * 4096 + (b[i + 1] % 64) * 64 + (b[i + 2] % 64)
    ELSE (b[i] % 8) * 262144 + (b[i + 1] % 64) * 4096
         + (b[i + 2] % 64) * 64 + (b[i + 3] % 64)

\* bytes.decode('utf-8') succeeds on the bytes from position i on: every byte
\* that is no continuation byte starts a well-formed sequence, and every
\* continuation byte belongs to the sequence that starts at most 3 bytes
\* before it
IsValidUtf8(b, i) ==
    \A j \in i..Len(b) :
        IF IsCont(b[j])
        THEN \E k \in 1..3 :
                 /\ j - k >= i
                 /\ ~IsCont(b[j - k])
                 /\ Utf8SeqLen(b, j - k) > k
        ELSE Utf8SeqLen(b, j) > 0

\* bytes.decode('utf-8', errors='ignore'): the string as a sequence of code
\* points; a byte that starts no well-formed sequence is skipped
RECURSIVE DecodeIgnore(_, _)
DecodeIgnore(b, i) ==
    IF i > Len(b) THEN <<>>
    ELSE LET Rest(k) ==
                 IF k = 0 THEN DecodeIgnore(b, i + 1)
                 ELSE <<Utf8CodePoint(b, i, k)>> \o DecodeIgnore(b, i + k)
         IN  Rest(Utf8SeqLen(b, i))

\* str.lower() of one code point, for ASCII and Latin-1 letters
LowerChar(c) ==
    IF c >= 65 /\ c <= 90 THEN c + 32
    ELSE IF c >= 192 /\ c <= 222 /\ c # 215 THEN c + 32
    ELSE c

Lower(s) == [i \in 1..Len(s) |-> LowerChar(s[i])]

---------------------------------------------------------------------------
(* Decompression                                                           *)

RaiseData == [exc |-> TRUE, out |-> <<>>]

Return(out) == [exc |-> FALSE, out |-> out]

\* a decompression for which a skipped method is a failure
DecompressSkipFails(compressed_data, expected_size) ==
    IF ~HAS_LZ4 THEN RaiseData
    ELSE
    LET Methods(frame, block_with_size, block_auto) ==
            IF frame.ok THEN Return(frame.out)
            ELSE IF IsZero(expected_size) THEN RaiseData
            ELSE IF block_with_size.ok THEN Return(block_with_size.out)
            ELSE IF block_auto.ok THEN Return(block_auto.out)
            ELSE IF IsValidUtf8(compressed_data, 1) THEN Return(compressed_data)
            ELSE RaiseData
    IN  Methods(lz4_frame_decompress(compressed_data),
                IF ~IsZero(expected_size)
                THEN lz4_block_decompress_sized(compressed_data, expected_size)
                ELSE Fail,
                lz4_block_decompress(compressed_data))

\* _decompress_data: frame, block with the expected size (skipped when the
\* expected size is 0), block with the size prefix, then the UTF-8 test
_decompress_data(compressed_data, expected_size) ==
    IF ~HAS_LZ4 THEN RaiseData
    ELSE
    LET Methods(frame, block_with_size, block_auto) ==
            IF frame.ok THEN Return(frame.out)
            ELSE IF block_with_size.ok THEN Return(block_with_size.out)
            ELSE IF block_auto.ok THEN Return(block_auto.out)
            ELSE IF IsValidUtf8(compressed_data, 1) THEN Return(compressed_data)
            ELSE RaiseData
    IN  Methods(lz4_frame_decompress(compressed_data),
                IF ~IsZero(expected_size)
                THEN lz4_block_decompress_sized(compressed_data, expected_size)
                ELSE Fail,
                lz4_block_decompress(compressed_data))

---------------------------------------------------------------------------
(* The directory                                                           *)

\* an entry whose archive_part is never taken from the record
FileEntryPartZero(name, offset, size_on_disk, uncompressed_size, archive_part, flags) ==
    [name |-> name, offset |-> offset, size_on_disk |-> size_on_disk,
     uncompressed_size |-> uncompressed_size,
     archive_part |-> Num(0), flags |-> flags]

FileEntry(name, offset, size_on_disk, uncompressed_size, archive_part, flags) ==
    [name |-> name, offset |-> offset, size_on_disk |-> size_on_disk,
     uncompressed_size |-> uncompressed_size,
     archive_part |-> archive_part, flags |-> flags]

Ge(v, n) == ~Small(v) \/ v.l0 >= n

\* v * k for 0 <= k < 4096, limb by limb
MulLimb(x, k, carry) ==
    LET p == (x % 4096) * k + carry
        q == (x \div 4096) * k + (p \div 4096)
    IN  [limb |-> (q % 4096) * 4096 + (p % 4096), carry |-> q \div 4096]

MulInt(v, k) ==
    LET m0 == MulLimb(v.l0, k, 0)
        m1 == MulLimb(v.l1, k, m0.carry)
    IN  [l0 |-> m0.limb, l1 |-> m1.limb, l2 |-> v.l2 * k + m1.carry]

EXPECTED_PER_FILE == 300
STRIDE_LOW == 250
STRIDE_HIGH == 350
ENTRY_SIZE_V13 == 296
ENTRY_SIZE_OLD == 272
NAME_FIELD == 256

\* a record width that takes the two limits of the window as plausible
EntrySizeInclusive(decompressed_len, num_files, version) ==
    LET calculated_entry_size ==
            IF ~IsZero(num_files)
            THEN (IF Small(num_files) THEN decompressed_len \div Val(num_files) ELSE 0)
            ELSE 0
    IN  IF calculated_entry_size >= STRIDE_LOW /\ calculated_entry_size <= STRIDE_HIGH
        THEN calculated_entry_size
        ELSE IF Ge(version, 13) THEN ENTRY_SIZE_V13
        ELSE ENTRY_SIZE_OLD

\* lines 233-249: the record width
EntrySize(decompressed_len, num_files, version) ==
    LET calculated_entry_size ==
            IF ~IsZero(num_files)
            THEN (IF Small(num_files) THEN decompressed_len \div Val(num_files) ELSE 0)
            ELSE 0
    IN  IF calculated_entry_size > STRIDE_LOW /\ calculated_entry_size < STRIDE_HIGH
        THEN calculated_entry_size
        ELSE IF Ge(version, 18) THEN ENTRY_SIZE_V13
        ELSE IF Ge(version, 15) THEN ENTRY_SIZE_V13
        ELSE IF Ge(version, 13) THEN ENTRY_SIZE_V13
        ELSE ENTRY_SIZE_OLD

\* 0-based position of the first NUL byte of b, or -1 (bytes.find)
FindNul(b) ==
    IF \E i \in 1..Len(b) : b[i] = 0
    THEN (CHOOSE i \in 1..Len(b) : b[i] = 0 /\ \A j \in 1..(i - 1) : b[j] # 0) - 1
    ELSE -1

\* lines 277-280, 293-296: the name of a record
EntryName(entry_data) ==
    LET name_bytes == Slice(entry_data, 0, NAME_FIELD)
        null_pos == FindNul(name_bytes)
    IN  IF null_pos >= 0 THEN DecodeIgnore(Slice(name_bytes, 0, null_pos), 1)
        ELSE <<>>

\* a record that fails to parse and is surfaced with the values the fields
\* were initialised to
NoEntryKept ==
    [exc |-> FALSE, keep |-> TRUE,
     entry |-> [name |-> <<>>, offset |-> Num(0), size_on_disk |-> Num(0),
                uncompressed_size |-> Num(0), archive_part |-> Num(0),
                flags |-> Num(0)]]

NoEntry == [exc |-> TRUE, keep |-> FALSE,
            entry |-> FileEntry(<<>>, Num(0), Num(0), Num(0), Num(0), Num(0))]

\* a record kept whatever its name and offset are
ParsedAny(e) == [exc |-> FALSE, keep |-> TRUE, entry |-> e]

\* lines 311-319: the record is kept if it has a name and an offset
Parsed(e) ==
    [exc |-> FALSE, keep |-> e.name # <<>> /\ ~IsZero(e.offset), entry |-> e]

\* lines 265-319: one record; exc is a struct.error of a short slice
ParseEntry(entry_data, version) ==
    LET f(a, b) == Slice(entry_data, a, b)
        Fields(name) ==
            IF Ge(version, 18)
            THEN IF CanUnpack(f(256, 260), 4) /\ CanUnpack(f(264, 268), 4)
                    /\ CanUnpack(f(268, 272), 4)
                 THEN Parsed(FileEntry(name, U32(f(256, 260)), U32(f(264, 268)),
                                       U32(f(268, 272)),
                                       IF Len(entry_data) >= 272
                                       THEN U32(f(268, 272)) ELSE Num(0),
                                       Num(0)))
                 ELSE NoEntry
            ELSE IF Ge(version, 13)
            THEN IF CanUnpack(f(256, 264), 8) /\ CanUnpack(f(264, 272), 8)
                    /\ CanUnpack(f(272, 280), 8)
                 THEN Parsed(FileEntry(name, U64(f(256, 264)), U64(f(264, 272)),
                                       U64(f(272, 280)),
                                       IF Len(entry_data) >= 284
                                       THEN U32(f(280, 284)) ELSE Num(0),
                                       IF Len(entry_data) >= 288
                                       THEN U32(f(284, 288)) ELSE Num(0)))
                 ELSE NoEntry
            ELSE IF CanUnpack(f(256, 264), 8) /\ CanUnpack(f(264, 268), 4)
                    /\ CanUnpack(f(268, 272), 4)
                 THEN Parsed(FileEntry(name, U64(f(256, 264)), U32(f(264, 268)),
                                       U32(f(268, 272)), Num(0), Num(0)))
                 ELSE NoEntry
    IN  Fields(EntryName(entry_data))

\* what a directory scan leaves: the entries, and what the scan went through:
\* whether the directory was decompressed, the length it decompressed to, the
\* entry count read, the record width used and the offset of every window
\* that was sliced, in the order of the loop
Scan(entries, windows) ==
    [entries |-> entries, decoded |-> FALSE, decompressed_len |-> 0,
     num_files |-> Num(0), entry_size |-> 0, windows |-> windows]

NoScan == Scan(<<>>, <<>>)

\* lines 257-328: the loop over the records; a record that fails to parse
\* takes the continue of line 326 and leaves offset where it was
RECURSIVE EntryLoop(_, _, _, _, _, _, _)
EntryLoop(decompressed, entry_size, version, count, i, offset, scan) ==
    IF i >= count THEN scan
    ELSE IF offset + entry_size > Len(decompressed) THEN scan
    ELSE
    LET Step(r) ==
            IF r.exc
            THEN EntryLoop(decompressed, entry_size, version, count, i + 1,
                           offset,
                           Scan(scan.entries, Append(scan.windows, offset)))
            ELSE EntryLoop(decompressed, entry_size, version, count, i + 1,
                           offset + entry_size,
                           Scan(IF r.keep THEN Append(scan.entries, r.entry)
                                ELSE scan.entries,
                                Append(scan.windows, offset)))
    IN  Step(ParseEntry(Slice(decompressed, offset, offset + entry_size),
                        version))

\* a record count that ignores num_files
EntryCountAll(num_files, fit) == fit

\* line 258: min(num_files, len(decompressed) // entry_size)
EntryCount(num_files, fit) ==
    IF Small(num_files) THEN Min(Val(num_files), fit) ELSE fit

\* a directory scan driven by the entry count and the size of the header
_read_file_entries_header_counts(data, h) ==
    LET file_list_start == h.file_list_offset
    IN  IF Gt(AddInt(file_list_start, 8), Len(data)) THEN NoScan
        ELSE
        LET Region(s, num_files, compressed_size) ==
                IF Gt(AddInt(compressed_size, s + 8), Len(data)) THEN NoScan
                ELSE
                LET Records(decompressed, entry_size) ==
                        [EntryLoop(decompressed, entry_size, h.version,
                                   EntryCount(num_files,
                                              Len(decompressed) \div entry_size),
                                   0, 0, NoScan)
                         EXCEPT !.decoded = TRUE,
                                !.decompressed_len = Len(decompressed),
                                !.num_files = num_files,
                                !.entry_size = entry_size]
                    Decompressed(d) ==
                        IF d.exc THEN NoScan
                        ELSE Records(d.out,
                                     EntrySize(Len(d.out), num_files, h.version))
                IN  Decompressed(
                        _decompress_data(
                            Slice(data, s + 8, s + 8 + Val(compressed_size)),
                            MulInt(num_files, EXPECTED_PER_FILE)))
        IN  Region(Val(file_list_start), h.num_files, h.file_list_size)

\* _read_file_entries for a header h: the scan, whose entries are the list
\* returned
_read_file_entries(data, h) ==
    LET file_list_start == h.file_list_offset
    IN  IF Gt(AddInt(file_list_start, 8), Len(data)) THEN NoScan
        ELSE
        LET Region(s, num_files, compressed_size) ==
                IF Gt(AddInt(compressed_size, s + 8), Len(data)) THEN NoScan
                ELSE
                LET Records(decompressed, entry_size) ==
                        [EntryLoop(decompressed, entry_size, h.version,
                                   EntryCount(num_files,
                                              Len(decompressed) \div entry_size),
                                   0, 0, NoScan)
                         EXCEPT !.decoded = TRUE,
                                !.decompressed_len = Len(decompressed),
                                !.num_files = num_files,
                                !.entry_size = entry_size]
                    Decompressed(d) ==
                        IF d.exc THEN NoScan
                        ELSE Records(d.out,
                                     EntrySize(Len(d.out), num_files, h.version))
                IN  Decompressed(
                        _decompress_data(
                            Slice(data, s + 8, s + 8 + Val(compressed_size)),
                            MulInt(num_files, EXPECTED_PER_FILE)))
        IN  Region(Val(file_list_start),
                   U32(Slice(data, Val(file_list_start),
                             Val(file_list_start) + 4)),
                   U32(Slice(data, Val(file_list_start) + 4,
                             Val(file_list_start) + 8)))

---------------------------------------------------------------------------
(* Synthetic archives: the inputs that are explored.  An archive is built  *)
(* from a layout, a version, a record width and a list of members; a       *)
(* member is a name, a payload given as runs, and the way it is stored.    *)
(* A run [lit, run] is the bytes lit followed by run copies of the last    *)
(* byte of lit (an LZ4 match of offset 1).                                 *)

Seg(lit, run) == [lit |-> lit, run |-> run]

Repeat(b, n) == [i \in 1..n |-> b]

RECURSIVE Expand(_)
Expand(segs) ==
    IF segs = <<>> THEN <<>>
    ELSE LET g == Head(segs)
         IN  g.lit \o Repeat(g.lit[Len(g.lit)], g.run) \o Expand(Tail(segs))

\* a run list in which only the last run has no match
RECURSIVE Norm(_)
Norm(segs) ==
    IF Len(segs) <= 1 THEN segs
    ELSE LET Join(g, next, rest) ==
                 IF g.run = 0
                 THEN Norm(<<Seg(g.lit \o next.lit, next.run)>> \o rest)
                 ELSE <<g>> \o Norm(<<next>> \o rest)
         IN  Join(segs[1], segs[2], Tail(Tail(segs)))

RECURSIVE ExtBytes(_)
ExtBytes(m) == IF m >= 255 THEN <<255>> \o ExtBytes(m - 255) ELSE <<m>>

Ext(n) == IF n < 15 THEN <<>> ELSE ExtBytes(n - 15)

RECURSIVE EncodeSeqs(_)
EncodeSeqs(segs) ==
    IF segs = <<>> THEN <<>>
    ELSE LET Encode(g, ml) ==
                 <<Min(Len(g.lit), 15) * 16 + Min(ml, 15)>> \o Ext(Len(g.lit))
                 \o g.lit
                 \o (IF g.run > 0 THEN <<1, 0>> \o Ext(ml) ELSE <<>>)
                 \o EncodeSeqs(Tail(segs))
         IN  Encode(Head(segs), IF Head(segs).run > 0 THEN Head(segs).run - 4 ELSE 0)

\* an LZ4 block of the bytes Expand(segs)
Lz4Block(segs) ==
    LET Encoded(n) ==
            IF n = <<>> THEN <<0>>
            ELSE IF n[Len(n)].run > 0 THEN EncodeSeqs(n) \o <<0>>
            ELSE EncodeSeqs(n)
    IN  Encoded(Norm(segs))

\* an LZ4 frame with one compressed block
Lz4Frame(segs) ==
    LET Framed(b) ==
            LZ4_FRAME_MAGIC \o LZ4_FRAME_DESCRIPTOR \o P32(Num(Len(b))) \o b
            \o Zeros(4)
    IN  Framed(Lz4Block(segs))

\* fix overrides the offset, size_on_disk and uncompressed_size written to the
\* record (<<>> keeps the true value)
NoFix == [offset |-> <<>>, size |-> <<>>, usize |-> <<>>]

Member(name, segs, mode) ==
    [name |-> name, segs |-> segs, mode |-> mode, fix |-> NoFix]

Or(opt, v) == IF opt = <<>> THEN v ELSE opt[1]

Payload(m) == Expand(m.segs)

Stored(m) ==
    IF m.mode = "block" THEN Lz4Block(m.segs)
    ELSE IF m.mode = "frame" THEN Lz4Frame(m.segs)
    ELSE IF m.mode = "auto" THEN P32(Num(Len(Payload(m)))) \o Lz4Block(m.segs)
    ELSE Payload(m)

RECURSIVE StoredAll(_)
StoredAll(ms) == IF ms = <<>> THEN <<>> ELSE Stored(Head(ms)) \o StoredAll(Tail(ms))

\* the fixed fields of a record, as the version lays them out
RecordFields(version, offset, size, usize) ==
    IF version >= 18 THEN P32(offset) \o Zeros(4) \o P32(size) \o P32(usize)
    ELSE IF version >= 13 THEN P64(offset) \o P64(size) \o P64(usize) \o Zeros(8)
    ELSE P64(offset) \o P32(size) \o P32(usize)

\* one directory record of width stride, as runs
RecordSegs(version, stride, name, offset, size, usize) ==
    LET Record(fields, nameSegs) ==
            IF stride - NAME_FIELD - Len(fields) < 0
            THEN <<Seg(SubSeq(Expand(nameSegs) \o fields, 1, stride), 0)>>
            ELSE IF stride - NAME_FIELD - Len(fields) >= 10
            THEN nameSegs
                 \o <<Seg(fields \o <<0>>, stride - NAME_FIELD - Len(fields) - 6),
                      Seg(Zeros(5), 0)>>
            ELSE nameSegs
                 \o <<Seg(fields \o Zeros(stride - NAME_FIELD - Len(fields)), 0)>>
    IN  Record(RecordFields(version, offset, size, usize),
               IF Len(name) = NAME_FIELD
               THEN <<Seg(<<name[1]>>, NAME_FIELD - 1)>>
               ELSE <<Seg(name \o <<0>>, NAME_FIELD - 1 - Len(name))>>)

\* the records of the members ms, the first payload stored at position at;
\* base is what the reader adds to a stored offset
RECURSIVE DirSegs(_, _, _, _, _)
DirSegs(version, stride, ms, at, base) ==
    IF ms = <<>> THEN <<>>
    ELSE LET Records(m, stored_len) ==
                 RecordSegs(version, stride, m.name,
                            Or(m.fix.offset, Num(at - base)),
                            Or(m.fix.size, Num(stored_len)),
                            Or(m.fix.usize, Num(Len(Payload(m)))))
                 \o DirSegs(version, stride, Tail(ms), at + stored_len, base)
         IN  Records(Head(ms), Len(Stored(Head(ms))))

\* the directory: entry count, compressed size, compressed records
Directory(count, segs, mode) ==
    LET Sized(c) == P32(count) \o P32(Num(Len(c))) \o c
    IN  Sized(IF mode = "frame" THEN Lz4Frame(segs) ELSE Lz4Block(segs))

TRAILER_SIZE == V13_MIN_HEADER + 8

PayloadStart(layout) == IF layout = "leading" THEN V10_DATA_OFFSET + 1 ELSE 1

Archive(layout, version, stride, count, mode, ms) ==
    LET Laid(p0, dir, body) ==
            IF layout = "leading"
            THEN LSPK_BYTES \o P32(Num(version)) \o P64(Num(V10_MIN_FILE))
                 \o P32(Num(Len(dir))) \o Zeros(8) \o P32(Num(count))
                 \o dir \o Zeros(p0 - V10_MIN_FILE - Len(dir)) \o body
            ELSE <<80>> \o body \o dir
                 \o P32(Num(version)) \o P64(Num(p0 + Len(body)))
                 \o P32(Num(Len(dir))) \o Zeros(4) \o P32(Num(count)) \o Zeros(4)
                 \o P32(Num(TRAILER_SIZE)) \o LSPK_BYTES
    IN  Laid(PayloadStart(layout),
             Directory(Num(count),
                       DirSegs(version, stride, ms, PayloadStart(layout),
                               IF version < 13 /\ layout = "leading"
                               THEN V10_DATA_OFFSET ELSE 0),
                       mode),
             StoredAll(ms))

---------------------------------------------------------------------------
(* The reader                                                              *)

\* the outcome of read_pak_structure: the value returned, the reader's two
\* fields, whether the file was read, whether line 376 was reached, the
\* header parsers that were called, in the order of the calls, and the scan of
\* the directory
Outcome(ret, h, f, opened, decoded) ==
    [exc |-> FALSE, ret |-> ret, header |-> h, files |-> f,
     opened |-> opened, decoded |-> decoded, tried |-> <<>>, scan |-> NoScan]

\* a detection that knows the trailing header only
DetectHeaderTrailingOnly(data, h0) ==
    LET end_sig == U32(Slice(data, Len(data) - 4, Len(data)))
        v13 == _read_header_v13_plus(data)
        h1 == IF end_sig = LSPK_SIGNATURE
              THEN (IF v13.exc THEN <<>> ELSE v13.header)
              ELSE h0
    IN  [failed |-> h1 = <<>>, header |-> h1,
         tried |-> IF end_sig = LSPK_SIGNATURE THEN <<"v13">> ELSE <<>>]

\* a detection that tries the leading header first
DetectHeaderLeadingFirst(data, h0) ==
    LET Detect(start_sig, end_sig, v13, v10) ==
            LET Trailing(h1, t) ==
                    IF h1 = <<>> /\ end_sig = LSPK_SIGNATURE
                    THEN (IF v13.exc
                          THEN [failed |-> TRUE, header |-> h1,
                                tried |-> t \o <<"v13">>]
                          ELSE [failed |-> FALSE, header |-> v13.header,
                                tried |-> t \o <<"v13">>])
                    ELSE [failed |-> h1 = <<>>, header |-> h1, tried |-> t]
            IN  Trailing(IF start_sig = LSPK_SIGNATURE
                         THEN (IF v10.exc THEN <<>> ELSE v10.header)
                         ELSE h0,
                         IF start_sig = LSPK_SIGNATURE THEN <<"v10">> ELSE <<>>)
    IN  Detect(U32(Slice(data, 0, 4)),
               U32(Slice(data, Len(data) - 4, Len(data))),
               _read_header_v13_plus(data), _read_header_v10(data))

\* a detection that gives up when the trailing header does not parse
DetectHeaderNoFallback(data, h0) ==
    LET Detect(start_sig, end_sig, v13, v10) ==
            LET Leading(h1, t) ==
                    IF end_sig = LSPK_SIGNATURE /\ v13.exc
                    THEN [failed |-> TRUE, header |-> <<>>, tried |-> t]
                    ELSE IF h1 = <<>> /\ start_sig = LSPK_SIGNATURE
                    THEN (IF v10.exc
                          THEN [failed |-> TRUE, header |-> h1,
                                tried |-> t \o <<"v10">>]
                          ELSE [failed |-> FALSE, header |-> v10.header,
                                tried |-> t \o <<"v10">>])
                    ELSE [failed |-> h1 = <<>>, header |-> h1, tried |-> t]
            IN  Leading(IF end_sig = LSPK_SIGNATURE
                        THEN (IF v13.exc THEN <<>> ELSE v13.header)
                        ELSE h0,
                        IF end_sig = LSPK_SIGNATURE THEN <<"v13">> ELSE <<>>)
    IN  Detect(U32(Slice(data, 0, 4)),
               U32(Slice(data, Len(data) - 4, Len(data))),
               _read_header_v13_plus(data), _read_header_v10(data))

\* lines 353-369: the header, the trailing variant first; tried lists the
\* parsers called
DetectHeader(data, h0) ==
    LET Detect(start_sig, end_sig, v13, v10) ==
            LET Leading(h1, t) ==
                    IF h1 = <<>> /\ start_sig = LSPK_SIGNATURE
                    THEN (IF v10.exc
                          THEN [failed |-> TRUE, header |-> h1,
                                tried |-> t \o <<"v10">>]
                          ELSE [failed |-> FALSE, header |-> v10.header,
                                tried |-> t \o <<"v10">>])
                    ELSE [failed |-> h1 = <<>>, header |-> h1, tried |-> t]
            IN  Leading(IF end_sig = LSPK_SIGNATURE
                        THEN (IF v13.exc THEN <<>> ELSE v13.header)
                        ELSE h0,
                        IF end_sig = LSPK_SIGNATURE THEN <<"v13">> ELSE <<>>)
    IN  Detect(U32(Slice(data, 0, 4)),
               U32(Slice(data, Len(data) - 4, Len(data))),
               _read_header_v13_plus(data), _read_header_v10(data))

\* lines 338-379, the body of the try: exc is the error of open()
ReadStructure(h0, f0) ==
    IF ~readable THEN [Outcome(FALSE, h0, f0, FALSE, FALSE) EXCEPT !.exc = TRUE]
    ELSE IF Len(disk) < V13_MIN_FILE THEN Outcome(FALSE, h0, f0, TRUE, FALSE)
    ELSE
    LET Entries(d, dir) ==
            [Outcome(Len(dir.entries) > 0, d.header, dir.entries, TRUE, TRUE)
             EXCEPT !.tried = d.tried, !.scan = dir]
        Detected(d) ==
            IF d.failed
            THEN [Outcome(FALSE, d.header, f0, TRUE, FALSE) EXCEPT !.tried = d.tried]
            ELSE Entries(d, _read_file_entries(disk, d.header[1]))
    IN  Detected(DetectHeader(disk, h0))

\* a read_pak_structure that lets the error of open() escape
read_pak_structure_uncaught(h0, f0) == ReadStructure(h0, f0)

\* read_pak_structure on a reader whose fields are h0 and f0: the except of
\* line 381 turns an error into the value False
read_pak_structure(h0, f0) ==
    LET Caught(r) == IF r.exc THEN [r EXCEPT !.exc = FALSE, !.ret = FALSE] ELSE r
    IN  Caught(ReadStructure(h0, f0))

\* a lookup that compares the names as they are
RECURSIVE FindEntryExact(_, _, _)
FindEntryExact(fs, filename, i) ==
    IF i > Len(fs) THEN 0
    ELSE IF fs[i].name = filename THEN i
    ELSE FindEntryExact(fs, filename, i + 1)

\* lines 391-396: the first entry whose lower-cased name is that of filename
RECURSIVE FindEntry(_, _, _)
FindEntry(fs, filename, i) ==
    IF i > Len(fs) THEN 0
    ELSE IF Lower(fs[i].name) = Lower(filename) THEN i
    ELSE FindEntry(fs, filename, i + 1)

PRINTABLE_LOW == 32
PRINTABLE_HIGH == 126
SNIFF_BINARY == 50
SNIFF_TEXT == 100
LESS_THAN_SIGN == 60

\* a sniff that looks at payloads of any length
LooksCompressedAnyLength(file_data) ==
    \/ Slice(file_data, 0, 4) = LZ4_FRAME_MAGIC
    \/ /\ \E i \in 1..Min(SNIFF_BINARY, Len(file_data)) :
              file_data[i] < PRINTABLE_LOW \/ file_data[i] > PRINTABLE_HIGH
       /\ \A i \in 1..Min(SNIFF_TEXT, Len(file_data)) :
              file_data[i] # LESS_THAN_SIGN

\* lines 427-435: the payload looks compressed
LooksCompressed(file_data) ==
    /\ Len(file_data) > 4
    /\ \/ Slice(file_data, 0, 4) = LZ4_FRAME_MAGIC
       \/ /\ \E i \in 1..Min(SNIFF_BINARY, Len(file_data)) :
                 file_data[i] < PRINTABLE_LOW \/ file_data[i] > PRINTABLE_HIGH
          /\ \A i \in 1..Min(SNIFF_TEXT, Len(file_data)) :
                 file_data[i] # LESS_THAN_SIGN

\* lines 418-435: whether the payload is decompressed
NeedsDecompression(e, file_data) ==
    \/ e.size_on_disk # e.uncompressed_size /\ ~IsZero(e.uncompressed_size)
    \/ LooksCompressed(file_data)

\* a position that adds data_offset whatever the version is
ActualOffsetAnyVersion(e, h) == AddInt(e.offset, Val(h.data_offset))

\* lines 405-407: the position the payload is read at
ActualOffset(e, h) ==
    IF ~Ge(h.version, 13) THEN AddInt(e.offset, Val(h.data_offset))
    ELSE e.offset

\* f.seek(pos) raises for a position that does not fit off_t and succeeds
\* for a small one; in between the file system decides
SeekOutcomes(pos) ==
    IF Small(pos) THEN {TRUE} ELSE IF ~FitsOffT(pos) THEN {FALSE} ELSE BOOLEAN

\* f.read(size) raises OverflowError for a size that does not fit an index
\* and succeeds for a small one; in between the allocation decides
ReadOutcomes(size) ==
    IF Small(size) THEN {TRUE} ELSE IF ~FitsOffT(size) THEN {FALSE} ELSE BOOLEAN

\* f.seek(pos); f.read(size) on the file as it is
ReadAt(pos, size) ==
    IF ~Small(pos) THEN <<>>
    ELSE Slice(disk, Val(pos),
               IF Small(size) THEN Val(pos) + Val(size) ELSE Len(disk))

\* the outcome of the body of the try of extract_file; pos is the position
\* passed to f.seek
Extracted(exc, io_ok, out, raw, needs, dec_failed) ==
    [exc |-> exc, io_ok |-> io_ok, out |-> out, raw |-> raw,
     needs |-> needs, dec_failed |-> dec_failed, pos |-> Num(0)]

\* an extraction whose decompression error escapes to the except of line 452
ExtractEntryNoFallback(e, h, seek_ok, read_ok) ==
    IF ~readable \/ ~seek_ok \/ ~read_ok
    THEN Extracted(TRUE, FALSE, <<>>, <<>>, FALSE, FALSE)
    ELSE
    LET Returned(file_data, needs, d) ==
            Extracted(needs /\ d.exc, TRUE,
                      IF needs /\ ~d.exc THEN d.out ELSE file_data,
                      file_data, needs, needs /\ d.exc)
        Read(file_data) ==
            Returned(file_data, HAS_LZ4 /\ NeedsDecompression(e, file_data),
                     _decompress_data(file_data, e.uncompressed_size))
        Seek(actual_offset) ==
            [Read(ReadAt(actual_offset, e.size_on_disk))
             EXCEPT !.pos = actual_offset]
    IN  Seek(ActualOffset(e, h))

\* lines 403-450 for the entry e, the body of the try: the bytes returned,
\* or exc for an error of open, seek or read
ExtractEntry(e, h, seek_ok, read_ok) ==
    IF ~readable \/ ~seek_ok \/ ~read_ok
    THEN Extracted(TRUE, FALSE, <<>>, <<>>, FALSE, FALSE)
    ELSE
    LET Returned(file_data, needs, d) ==
            Extracted(FALSE, TRUE,
                      IF needs /\ ~d.exc THEN d.out ELSE file_data,
                      file_data, needs, needs /\ d.exc)
        Read(file_data) ==
            Returned(file_data, HAS_LZ4 /\ NeedsDecompression(e, file_data),
                     _decompress_data(file_data, e.uncompressed_size))
        Seek(actual_offset) ==
            [Read(ReadAt(actual_offset, e.size_on_disk))
             EXCEPT !.pos = actual_offset]
    IN  Seek(ActualOffset(e, h))

\* an extract_file that reads the structure at every call
ExtractNeedsLoadAlways(h, f) == TRUE

\* line 387: extract_file reads the structure
ExtractNeedsLoad(h, f) == h = <<>> \/ f = <<>>

\* line 458: list_files reads the structure
ListNeedsLoad(f) == f = <<>>

\* the record of a public call
NoCall ==
    [op |-> "none", arg |-> <<>>, ret |-> "none", value |-> <<>>,
     ran |-> FALSE, opened |-> FALSE, target |-> 0, io |-> "na", raw |-> <<>>,
     needs |-> FALSE, dec_failed |-> FALSE, tried |-> <<>>, scan |-> NoScan,
     pos |-> Num(0)]

---------------------------------------------------------------------------
(* The explored inputs                                                     *)

\* names, as bytes: "a", "A", "b", e-acute, an invalid byte, "b" + invalid
NameA == <<97>>
NameUpperA == <<65>>
NameB == <<98>>
NameEAcute == <<195, 169>>
NameInvalid == <<255>>
NameBInvalid == <<98, 255>>

\* payloads: text with '<', printable text, binary that is also an LZ4
\* block of 4 literals, binary that is also an LZ4 block of its own length
\* (a literal, a match of 4, 8 literals), binary that is valid UTF-8, binary
\* that is neither, the frame magic, a run of one byte, two bytes, nothing
TextPayload == <<Seg(<<60, 120, 62, 97, 98>>, 0)>>
PrintablePayload == <<Seg(<<104, 101, 108, 108, 111>>, 0)>>
BlockLikePayload == <<Seg(<<64, 1, 98, 99, 100>>, 0)>>
ExactBlockPayload ==
    <<Seg(<<16, 120, 1, 0, 128, 97, 98, 99, 100, 101, 102, 103, 104>>, 0)>>
ControlPayload == <<Seg(<<0, 1, 2, 3, 4, 5>>, 0)>>
BinaryPayload == <<Seg(<<200, 1, 2, 3, 4>>, 0)>>
MagicPayload == <<Seg(LZ4_FRAME_MAGIC \o <<0>>, 0)>>
RunPayload == <<Seg(<<120>>, 14), Seg(Repeat(120, 5), 0)>>
ShortPayload == <<Seg(<<7, 8>>, 0)>>
EmptyPayload == <<>>
\* the frame magic and nothing else; 4 bytes with a control byte
MagicOnlyPayload == <<Seg(LZ4_FRAME_MAGIC, 0)>>
FourBytePayload == <<Seg(<<1, 98, 99, 100>>, 0)>>
\* a control byte as byte 50 and as byte 51 of printable bytes
ControlAt50Payload == <<Seg(<<120>>, SNIFF_BINARY - 2), Seg(<<1>>, 0)>>
ControlAt51Payload == <<Seg(<<120>>, SNIFF_BINARY - 1), Seg(<<1>>, 0)>>
\* a control byte followed by printable bytes and '<' as byte 100 and 101
LessThanAt100Payload == <<Seg(<<1, 120>>, SNIFF_TEXT - 3), Seg(<<LESS_THAN_SIGN>>, 0)>>
LessThanAt101Payload == <<Seg(<<1, 120>>, SNIFF_TEXT - 2), Seg(<<LESS_THAN_SIGN>>, 0)>>

Raw(name, segs) == Member(name, segs, "raw")
Block(name, segs) == Member(name, segs, "block")
Frame(name, segs) == Member(name, segs, "frame")
\* a block that follows its uncompressed size, as lz4.block.compress writes it
Auto(name, segs) == Member(name, segs, "auto")

\* member lists of well-formed archives, built for every layout and version
CoreMembers ==
    { <<Raw(NameA, TextPayload)>>,
      <<Block(NameA, RunPayload), Raw(NameB, PrintablePayload)>>,
      <<Frame(NameB, TextPayload), Raw(NameUpperA, BinaryPayload)>> }

\* member lists of well-formed archives, built for one layout and version
MoreMembers ==
    { <<Raw(NameUpperA, TextPayload), Raw(NameA, PrintablePayload)>>,
      <<Raw(NameA, ShortPayload), Block(NameUpperA, PrintablePayload)>>,
      <<Raw(NameA, BlockLikePayload)>>,
      <<Raw(NameB, ExactBlockPayload)>>,
      <<Raw(NameA, ControlPayload), Raw(NameB, MagicPayload)>>,
      <<Block(NameA, EmptyPayload)>>,
      <<Raw(NameA, EmptyPayload), Frame(NameB, RunPayload)>>,
      <<Raw(NameEAcute, TextPayload), Block(NameB, BinaryPayload)>>,
      <<Raw(NameA, MagicOnlyPayload), Raw(NameB, FourBytePayload)>>,
      <<Auto(NameA, RunPayload), Auto(NameB, PrintablePayload)>>,
      <<Raw(NameA, ControlAt50Payload), Raw(NameB, ControlAt51Payload)>>,
      <<Raw(NameA, LessThanAt100Payload), Raw(NameB, LessThanAt101Payload)>> }

\* the members of the archives that are corrupted and truncated
BaseMembers == <<Block(NameA, RunPayload), Raw(NameB, PrintablePayload)>>

\* a record with offset 0
ZeroOffset(m) == [m EXCEPT !.fix.offset = <<Num(0)>>]

\* member lists with records that are dropped: an empty name, a name of
\* undecodable bytes, an offset of 0
DroppedMembers ==
    { <<Raw(NameA, TextPayload), ZeroOffset(Raw(NameB, PrintablePayload))>>,
      <<ZeroOffset(Raw(NameA, TextPayload)), Raw(NameB, PrintablePayload)>>,
      <<Raw(<<>>, TextPayload), Raw(NameB, PrintablePayload)>>,
      <<Raw(NameInvalid, TextPayload), Raw(NameBInvalid, PrintablePayload)>>,
      <<ZeroOffset(Raw(NameA, TextPayload))>> }

Layouts == {"trailing", "leading"}

Versions == {10, 13, 18}

DefaultStride(version) == IF version >= 13 THEN ENTRY_SIZE_V13 ELSE ENTRY_SIZE_OLD

ArchiveSpec(l, v, stride, count, ms) ==
    [layout |-> l, version |-> v, stride |-> stride, count |-> count,
     dir |-> "block", members |-> ms]

\* the same archive with its directory stored as an LZ4 frame
FrameDir(a) == [a EXCEPT !.dir = "frame"]

\* well-formed archives: every record is valid and counted
ValidSpecs ==
    { ArchiveSpec(l, v, DefaultStride(v), Len(ms), ms) :
        l \in Layouts, v \in Versions, ms \in CoreMembers }
    \cup { ArchiveSpec("trailing", 18, ENTRY_SIZE_V13, Len(ms), ms) : ms \in MoreMembers }
    \cup { ArchiveSpec("trailing", 18, ENTRY_SIZE_OLD, Len(ms), ms) : ms \in CoreMembers }

\* archives with dropped records, and archives whose entry count differs
\* from the number of records
OddSpecs ==
    { ArchiveSpec(l, v, DefaultStride(v), Len(ms), ms) :
        l \in {"trailing"}, v \in Versions, ms \in DroppedMembers }
    \cup { ArchiveSpec("trailing", 18, ENTRY_SIZE_V13, n, BaseMembers) :
             n \in {0, 1, 3} }
    \cup { FrameDir(ArchiveSpec("trailing", 18, ENTRY_SIZE_V13, n, BaseMembers)) :
             n \in {0, 1, 2} }
    \cup { ArchiveSpec(l, 18, ENTRY_SIZE_V13, 0, <<>>) : l \in Layouts }
    \cup { ArchiveSpec("trailing", 15, ENTRY_SIZE_OLD, Len(ms), ms) : ms \in CoreMembers }

Specs == ValidSpecs \cup OddSpecs

Build(a) == Archive(a.layout, a.version, a.stride, a.count, a.dir, a.members)

Built == [a \in Specs |-> Build(a)]

Patch(buf, at, bytes) ==
    [i \in 1..Len(buf) |->
        IF i > at /\ i <= at + Len(bytes) THEN bytes[i - at] ELSE buf[i]]

TrailingBase == Build(ArchiveSpec("trailing", 18, ENTRY_SIZE_V13, 2, BaseMembers))

LeadingBase == Build(ArchiveSpec("leading", 10, ENTRY_SIZE_OLD, 2, BaseMembers))

HugeWord == <<255, 255, 255, 255>>

\* a trailing-header archive of n bytes, its directory at dir, with one
\* field of the header or of the directory overwritten
CorruptTrailing(base, n, dir) ==
    { Patch(base, n - 8, w) :
        w \in {HugeWord, P32(Num(0)), P32(Num(35)), P32(Num(n)), P32(Num(n + 1))} }
    \cup { Patch(base, n - 32, w) :
        w \in {P64(Num(n - 7)), P64(Num(n)), HugeWord \o HugeWord, P64(Num(0))} }
    \cup { Patch(base, n - 36, w) : w \in {HugeWord, P32(Num(0))} }
    \cup { Patch(base, dir, w) : w \in {HugeWord, P32(Num(0)), P32(Num(7158279))} }
    \cup { Patch(base, dir + 4, w) :
        w \in {HugeWord, P32(Num(n)), P32(Num(3)), P32(Num(0))} }
    \cup { Patch(base, dir + 8, w) : w \in {HugeWord, LZ4_FRAME_MAGIC} }

\* a leading-header archive with one field overwritten
CorruptLeading(base) ==
    { Patch(base, 8, w) : w \in {P64(Num(Len(base))), HugeWord \o HugeWord} }
    \cup { Patch(base, 32, w) : w \in {HugeWord, P32(Num(0))} }
    \cup { Patch(base, 40, w) : w \in {HugeWord} }

\* the record widths around the limits of the plausible window
StrideCases == {250, 251, 271, 272, 279, 280, 349, 350, 400}

\* two-record archives whose records have these widths; the directory is
\* stored as a frame, which decompresses whatever its length
StrideSpecs ==
    { FrameDir(ArchiveSpec("trailing", v, s, 2, BaseMembers)) :
        v \in Versions, s \in StrideCases }

\* a name that fills the name field: 256 letters a and no NUL byte
NameLong == Repeat(97, NAME_FIELD)

\* two-record archives whose first record has a name field with no NUL byte
LongNameSpecs ==
    { ArchiveSpec("trailing", v, DefaultStride(v), 2,
                  <<Raw(NameLong, TextPayload), Raw(NameB, PrintablePayload)>>) :
        v \in Versions }

\* records whose offset or size is beyond the file or beyond 64-bit positions
Beyond == [l0 |-> 0, l1 |-> 1, l2 |-> 0]
Beyond63 == [l0 |-> 0, l1 |-> 0, l2 |-> 2^15]

WildMembers ==
    { <<[Raw(NameA, TextPayload) EXCEPT !.fix.offset = <<o>>]>> :
        o \in {Beyond, Beyond63, Num(3000)} }
    \cup { <<[Raw(NameA, BinaryPayload) EXCEPT !.fix.size = <<z>>, !.fix.usize = <<z>>]>> :
        z \in {Beyond, Beyond63, Num(3000), Num(3)} }
    \cup { <<[Block(NameA, RunPayload) EXCEPT !.fix.size = <<Num(4)>>]>>,
           <<[Block(NameA, RunPayload) EXCEPT !.fix.usize = <<Num(7)>>]>>,
           <<[Auto(NameA, RunPayload) EXCEPT !.fix.usize = <<Num(0)>>]>>,
           <<[Frame(NameA, RunPayload) EXCEPT !.fix.usize = <<Num(0)>>]>> }

WildSpecs ==
    { ArchiveSpec("trailing", 13, ENTRY_SIZE_V13, 1, ms) : ms \in WildMembers }
    \cup { ArchiveSpec("leading", 10, ENTRY_SIZE_OLD, 1, ms) : ms \in WildMembers }

\* the positions a leading-header archive is cut at
LeadingCuts == {0, 3, 4, 11, 12, 31, 32, 39, 40, 41, 60, 280, 281, 290, 300}

\* a trailing-header archive cut at every position, a leading-header one at
\* the positions LeadingCuts
Truncated(trailing, leading) ==
    { SubSeq(trailing, 1, k) : k \in 0..(Len(trailing) - 1) }
    \cup { SubSeq(leading, 1, k) : k \in LeadingCuts \cap 0..Len(leading) }

\* buffers with no signature, and with a signature and nothing else
Blank ==
    { Zeros(k) : k \in {11, 12, 32, 40} }
    \cup { LSPK_BYTES \o Zeros(k) : k \in {8, 27, 28, 36} }
    \cup { Zeros(k) \o LSPK_BYTES : k \in {8, 32, 36} }

\* buffers that carry the signature at both ends: a trailing-header archive
\* whose first 4 bytes are the signature, with its header size as written or
\* overwritten, and a leading-header archive followed by a header size and
\* the signature
BothMagics(trailing, leading) ==
    { Patch(trailing, 0, LSPK_BYTES) }
    \cup { Patch(Patch(trailing, 0, LSPK_BYTES), Len(trailing) - 8, w) :
             w \in {P32(Num(0)), P32(Num(35)), P32(Num(Len(trailing) + 1)), HugeWord} }
    \cup { leading \o w \o LSPK_BYTES :
             w \in {P32(Num(0)), P32(Num(35)), P32(Num(36)), HugeWord} }
    \cup { LSPK_BYTES \o Zeros(k) \o LSPK_BYTES : k \in {4, 23, 24, 32} }

\* an archive whose header carries another file_list_size (at position
\* at_size) or another num_files (at position at_count) than its directory
HeaderCounts(base, at_size, at_count) ==
    { Patch(base, at_size, w) : w \in {P32(Num(0)), P32(Num(3)), HugeWord} }
    \cup { Patch(base, at_count, w) :
             w \in {P32(Num(0)), P32(Num(1)), P32(Num(3)), HugeWord} }
    \cup { Patch(Patch(base, at_size, P32(Num(0))), at_count, P32(Num(0))) }

\* the archives derived from a trailing-header and a leading-header one
Derived(trailing, leading) ==
    CorruptTrailing(trailing, Len(trailing),
                    Val(U64(Slice(trailing, Len(trailing) - 32,
                                  Len(trailing) - 24))))
    \cup CorruptLeading(leading)
    \cup Truncated(trailing, leading)
    \cup BothMagics(trailing, leading)
    \cup HeaderCounts(trailing, Len(trailing) - 24, Len(trailing) - 16)
    \cup HeaderCounts(leading, 16, 28)
    \cup {trailing, leading}

\* without lz4 only the first two are explored
BaseArchives == <<TrailingBase, LeadingBase, Zeros(40)>>

Archives ==
    { Build(a) : a \in Specs \cup WildSpecs \cup StrideSpecs \cup LongNameSpecs }
    \cup Derived(BaseArchives[1], BaseArchives[2]) \cup Blank

PlainArchives == { BaseArchives[1], BaseArchives[2] }

\* the files the environment may put in place of the archive
Replacements ==
    { BaseArchives[1], BaseArchives[3],
      Build(ArchiveSpec("leading", 10, ENTRY_SIZE_OLD, 1, <<Raw(NameB, TextPayload)>>)) }

\* the file names asked for: "a", "A", "b", "z", E-acute
Filenames == { <<97>>, <<65>>, <<98>>, <<122>>, <<201>> }

MaxDecodes == 2
MaxWrites == 1

---------------------------------------------------------------------------
(* The state machine                                                       *)

\* ask_groq before a call: no attempt made, best_rate 0 (kept as the number
\* of mods categorized), best_result None
NoGroq ==
    [pc |-> "idle", categories |-> <<>>, mod_names |-> <<>>, attempt |-> 0,
     calls |-> 0, response |-> [kind |-> "none"], best_rate |-> 0,
     best_result |-> <<>>, seen |-> <<>>, ret |-> <<>>]

NoSort == [op |-> "none", before |-> <<>>, plan |-> <<>>, unsorted |-> <<>>, runs |-> 0]

NoUi ==
    [op |-> "none", ok |-> FALSE, dropped |-> 0, before_items |-> <<>>, before_nodes |-> <<>>,
     after_items |-> <<>>, after_nodes |-> <<>>, loaded_items |-> <<>>,
     loaded_nodes |-> <<>>]

\* a reader that has not been used, on a file of the archives explored
PakInit ==
    /\ HAS_LZ4 \in BOOLEAN
    /\ disk \in IF HAS_LZ4 THEN Archives ELSE PlainArchives
    /\ readable = TRUE
    /\ header = <<>>
    /\ files = <<>>
    /\ call = NoCall
    /\ nreads = 0
    /\ nwrites = 0
    /\ pc = "idle"
    /\ pak_folder = <<>>
    /\ todo = <<>>
    /\ mod_info_list = <<>>
    /\ mods_data = <<>>
    /\ ncalls = 0
    /\ appended = <<>>

\* no document, an empty text file and no call of the sorter
SortIdle == xml = <<>> /\ txt = <<>> /\ groq = NoGroq /\ sort = NoSort

\* lines 138-140 of loadordersortui.py: a window with nothing loaded
UiIdle ==
    /\ mod_items = <<>>
    /\ xml_nodes = <<>>
    /\ command_history = <<>>
    /\ current_command_index = -1
    /\ ui = NoUi

Init == PakInit /\ SortIdle /\ UiIdle

Names(fs) == [i \in 1..Len(fs) |-> fs[i].name]

Count(n, decoded) == IF decoded THEN Min(n + 1, MaxDecodes) ELSE n

\* list_files()
list_files ==
    \E need \in {ListNeedsLoad(files)} :
    \E r \in {IF need THEN read_pak_structure(header, files)
              ELSE Outcome(TRUE, header, files, FALSE, FALSE)} :
        /\ header' = r.header
        /\ files' = r.files
        /\ nreads' = Count(nreads, r.decoded)
        /\ call' = [NoCall EXCEPT
                      !.op = "list_files",
                      !.ran = need,
                      !.opened = r.opened,
                      !.tried = r.tried,
                      !.scan = r.scan,
                      !.ret = IF r.exc THEN "raise" ELSE "list",
                      !.value = IF r.exc \/ ~r.ret THEN <<>> ELSE Names(r.files)]
        /\ UNCHANGED <<disk, readable, HAS_LZ4, nwrites>>
        /\ UNCHANGED <<batch_vars, sort_vars, ui_vars>>

\* extract_file(filename)
extract_file(filename) ==
    \E need \in {ExtractNeedsLoad(header, files)} :
    \E r \in {IF need THEN read_pak_structure(header, files)
              ELSE Outcome(TRUE, header, files, FALSE, FALSE)} :
    \E t \in {FindEntry(r.files, filename, 1)} :
    \E c \in {[NoCall EXCEPT !.op = "extract_file", !.arg = filename,
                             !.ran = need, !.opened = r.opened,
                             !.tried = r.tried, !.scan = r.scan]} :
        /\ header' = r.header
        /\ files' = r.files
        /\ nreads' = Count(nreads, r.decoded)
        /\ IF r.exc THEN call' = [c EXCEPT !.ret = "raise"]
           ELSE IF ~r.ret \/ t = 0 THEN call' = [c EXCEPT !.ret = "None"]
           ELSE
           \E seek_ok \in SeekOutcomes(ActualOffset(r.files[t], r.header[1])),
              read_ok \in ReadOutcomes(r.files[t].size_on_disk) :
           \E x \in {ExtractEntry(r.files[t], r.header[1], seek_ok, read_ok)} :
               call' = [c EXCEPT
                          !.target = t,
                          !.io = IF x.io_ok THEN "ok" ELSE "fail",
                          !.ret = IF x.exc THEN "None" ELSE "bytes",
                          !.value = x.out,
                          !.raw = x.raw,
                          !.pos = x.pos,
                          !.needs = x.needs,
                          !.dec_failed = x.dec_failed]
        /\ UNCHANGED <<disk, readable, HAS_LZ4, nwrites>>
        /\ UNCHANGED <<batch_vars, sort_vars, ui_vars>>

\* the environment makes the file unreadable, or readable again
Chmod ==
    /\ readable' = ~readable
    /\ UNCHANGED <<disk, HAS_LZ4, header, files, call, nreads, nwrites>>
    /\ UNCHANGED <<batch_vars, sort_vars, ui_vars>>

\* the environment replaces the file
WriteFile ==
    /\ nwrites < MaxWrites
    /\ \E b \in Replacements : disk' = b
    /\ nwrites' = nwrites + 1
    /\ UNCHANGED <<readable, HAS_LZ4, header, files, call, nreads>>
    /\ UNCHANGED <<batch_vars, sort_vars, ui_vars>>

Next ==
    \/ list_files
    \/ \E filename \in Filenames : extract_file(filename)
    \/ Chmod

Spec == Init /\ [][Next]_vars

\* the archives a reader is opened on when the file may be replaced
RewriteArchives ==
    { BaseArchives[i] : i \in 1..3 } \cup { Build(a) : a \in OddSpecs }

InitRewrite == Init /\ disk \in RewriteArchives

NextRewrite == Next \/ WriteFile

SpecRewrite == InitRewrite /\ [][NextRewrite]_vars

---------------------------------------------------------------------------
(* The batch scan: extract_mod_data over a folder                          *)

\* lines 18-35: a ModMetadata; the document explored sets no field but name
ModMetadata(name) == [name |-> name]

\* 'meta.lsx'
META_LSX == <<109, 101, 116, 97, 46, 108, 115, 120>>

EndsWith(s, suffix) ==
    /\ Len(s) >= Len(suffix)
    /\ SubSeq(s, Len(s) - Len(suffix) + 1, Len(s)) = suffix

\* the document
\*   <s><node id="ModuleInfo"><node><attribute id="Name" value="NAME"/>
\*   </node></node></s>
\* on one line, for a name of ASCII letters
LSX_HEAD ==
    <<60, 115, 62, 60, 110, 111, 100, 101, 32, 105, 100, 61, 34, 77,
      111, 100, 117, 108, 101, 73, 110, 102, 111, 34, 62, 60, 110, 111,
      100, 101, 62, 60, 97, 116, 116, 114, 105, 98, 117, 116, 101, 32,
      105, 100, 61, 34, 78, 97, 109, 101, 34, 32, 118, 97, 108, 117, 101,
      61, 34>>

LSX_TAIL ==
    <<34, 47, 62, 60, 47, 110, 111, 100, 101, 62, 60, 47, 110, 111, 100,
      101, 62, 60, 47, 115, 62>>

LsxDocument(name) == LSX_HEAD \o name \o LSX_TAIL

\* the names of the mods of the explored documents: "A" and "B"
ModNames == { <<65>>, <<66>> }

\* lines 469-567 on the explored contents: a document LsxDocument(n) parses
\* and its Name attribute is n; every other explored content is not
\* well-formed XML, ET.fromstring raises, the except of line 559 catches it
\* and the metadata returned has its default fields
parse_lsx_content(lsx_content) ==
    IF \E n \in ModNames : lsx_content = LsxDocument(n)
    THEN ModMetadata(CHOOSE n \in ModNames : lsx_content = LsxDocument(n))
    ELSE ModMetadata(<<>>)

\* lines 587-592: the first path that ends with meta.lsx in lower case, or 0
RECURSIVE FindMeta(_, _)
FindMeta(names, i) ==
    IF i > Len(names) THEN 0
    ELSE IF EndsWith(Lower(names[i]), META_LSX) THEN i
    ELSE FindMeta(names, i + 1)

\* what extract_bg3_mod_info gives: an error that escaped, and the metadata
\* returned (<<>> is None)
Info(raised, mod) == [raised |-> raised, mod |-> mod]

\* the record of a meta.lsx member if line 603 did not test what
\* extract_file returned
MetaInfoAlwaysParsed(x) == Info(FALSE, <<parse_lsx_content(x.out)>>)

\* lines 602-613: None for no content, else the parsed metadata
MetaInfo(x) ==
    IF x.exc \/ x.out = <<>> THEN Info(FALSE, <<>>)
    ELSE Info(FALSE, <<parse_lsx_content(x.out)>>)

\* an entry of a folder: a file or a folder, whether its name ends with
\* .pak, for a file its content and whether it can be opened, for a folder
\* its entries
FolderEntry(pak, dir, kind, data, can_open, children) ==
    [pak |-> pak, dir |-> dir, kind |-> kind, data |-> data,
     readable |-> can_open, children |-> children]

\* the file extract_bg3_mod_info is called on; a folder cannot be opened
PakPath(e) == [kind |-> e.kind, data |-> e.data, readable |-> e.readable /\ ~e.dir]

\* lines 646-647: the .pak entries of a subfolder
RECURSIVE SubPaks(_)
SubPaks(children) ==
    IF children = <<>> THEN <<>>
    ELSE (IF Head(children).pak THEN <<PakPath(Head(children))>> ELSE <<>>)
         \o SubPaks(Tail(children))

\* lines 640-650: the paths extract_bg3_mod_info is called on, in the order
\* of the calls
RECURSIVE PakFiles(_)
PakFiles(entries) ==
    IF entries = <<>> THEN <<>>
    ELSE (IF Head(entries).pak THEN <<PakPath(Head(entries))>>
          ELSE IF Head(entries).dir THEN SubPaks(Head(entries).children)
          ELSE <<>>)
         \o PakFiles(Tail(entries))

\* lines 619-629: the keys of output_data, a dict: one key for every name, in
\* the order of the first record of that name
RECURSIVE Keys(_)
Keys(mod_list) ==
    IF mod_list = <<>> THEN <<>>
    ELSE LET Rest(k, name) ==
                 IF \E i \in 1..Len(k) : k[i] = name THEN k ELSE Append(k, name)
         IN  Rest(Keys(SubSeq(mod_list, 1, Len(mod_list) - 1)),
                  mod_list[Len(mod_list)].name)

\* the names of the meta member: 'meta.lsx' and 'M/META.LSX'
NameMeta == META_LSX
NameMetaPath == <<77, 47, 77, 69, 84, 65, 46, 76, 83, 88>>

LsxPayload(name) == <<Seg(LsxDocument(name), 0)>>

\* archives with a meta member that parses: mod "A" stored raw after another
\* member, mod "B" stored as a frame in a leading-header archive
GoodA ==
    Build(ArchiveSpec("trailing", 18, ENTRY_SIZE_V13, 2,
                      <<Raw(NameA, TextPayload), Raw(NameMeta, LsxPayload(<<65>>))>>))

GoodB ==
    Build(ArchiveSpec("leading", 10, ENTRY_SIZE_OLD, 1,
                      <<Frame(NameMetaPath, LsxPayload(<<66>>))>>))

\* a meta member that is no document
GarbledMeta ==
    Build(ArchiveSpec("trailing", 18, ENTRY_SIZE_V13, 1,
                      <<Raw(NameMeta, BinaryPayload)>>))

\* a trailing header whose size is 0
InvalidHeader(base) == Patch(base, Len(base) - 8, P32(Num(0)))

\* a directory whose compressed size reaches beyond the file
BadDirectory(base) ==
    Patch(base, Val(U64(Slice(base, Len(base) - 32, Len(base) - 24))) + 4,
          HugeWord)

\* a meta member whose offset lies beyond the file, and an empty one
LostMeta ==
    Build(ArchiveSpec("trailing", 18, ENTRY_SIZE_V13, 1,
                      <<[Raw(NameMeta, LsxPayload(<<65>>))
                         EXCEPT !.fix.offset = <<Num(3000)>>]>>))

EmptyMeta ==
    Build(ArchiveSpec("trailing", 18, ENTRY_SIZE_V13, 2,
                      <<Raw(NameA, TextPayload), Raw(NameMeta, EmptyPayload)>>))

\* a .pak file of a kind, another file, a subfolder, a folder named .pak
Pak(kind, data) == FolderEntry(TRUE, FALSE, kind, data, TRUE, <<>>)
Locked(e) == [e EXCEPT !.readable = FALSE, !.kind = "unreadable"]
OtherFile == FolderEntry(FALSE, FALSE, "other", Zeros(12), TRUE, <<>>)
SubFolder(children) == FolderEntry(FALSE, TRUE, "folder", <<>>, TRUE, children)
PakFolder(children) == FolderEntry(TRUE, TRUE, "folder.pak", <<>>, TRUE, children)

\* the folders extract_mod_data is called on
Folders ==
    { <<>>,
      <<Pak("B", GoodB)>>,
      <<Pak("A", GoodA), Pak("unrecognized", Zeros(40)), Pak("B", GoodB)>>,
      <<Pak("invalid header", InvalidHeader(BaseArchives[1])),
        SubFolder(<<Pak("bad directory", BadDirectory(GoodA)), OtherFile,
                    Pak("B", GoodB), SubFolder(<<Pak("A", GoodA)>>)>>),
        Pak("no meta", BaseArchives[1])>>,
      <<Pak("lost meta", LostMeta), Locked(Pak("A", GoodA)), OtherFile,
        Pak("A", GoodA)>>,
      <<Pak("garbled meta", GarbledMeta), Pak("empty meta", EmptyMeta)>>,
      <<PakFolder(<<Pak("A", GoodA)>>),
        SubFolder(<<PakFolder(<<>>), Pak("A", GoodA)>>)>> }

MaxCalls == 2

\* a call of extract_mod_data with its default arguments begins: the loop
\* is entered with the first .pak file on disk
extract_mod_data ==
    /\ pc \in {"idle", "returned", "raised"}
    /\ ncalls < MaxCalls
    /\ \E folder \in Folders :
       \E paks \in {PakFiles(folder)} :
          /\ pak_folder' = folder
          /\ todo' = paks
          /\ IF paks = <<>>
             THEN pc' = "export" /\ UNCHANGED <<disk, readable>>
             ELSE /\ pc' = "scan"
                  /\ disk' = paks[1].data
                  /\ readable' = paks[1].readable
    /\ appended' = <<>>
    /\ ncalls' = ncalls + 1
    /\ UNCHANGED <<HAS_LZ4, header, files, call, nreads, nwrites,
                   mod_info_list, mods_data>>
    /\ UNCHANGED <<sort_vars, ui_vars>>

\* lines 642-644 and 648-650: extract_bg3_mod_info on the file on disk with
\* a new reader, the record appended, and the next file
extract_bg3_mod_info ==
    /\ pc = "scan"
    /\ \E r \in {read_pak_structure(<<>>, <<>>)} :
       \E names \in {IF r.exc \/ ~r.ret THEN <<>> ELSE Names(r.files)} :
       \E m \in {FindMeta(names, 1)} :
       \E t \in {IF m = 0 THEN 0 ELSE FindEntry(r.files, names[m], 1)} :
       \E info \in
            IF r.exc THEN {Info(TRUE, <<>>)}
            ELSE IF t = 0 THEN {Info(FALSE, <<>>)}
            ELSE { MetaInfo(ExtractEntry(r.files[t], r.header[1], seek_ok, read_ok)) :
                     seek_ok \in SeekOutcomes(ActualOffset(r.files[t], r.header[1])),
                     read_ok \in ReadOutcomes(r.files[t].size_on_disk) } :
          /\ header' = r.header
          /\ files' = r.files
          /\ mod_info_list' = mod_info_list \o info.mod
          /\ appended' = appended
                \o (IF info.mod = <<>> THEN <<>>
                    ELSE <<[kind |-> todo[1].kind, mod |-> info.mod[1]]>>)
          /\ IF info.raised
             THEN pc' = "raised" /\ UNCHANGED <<disk, readable, todo>>
             ELSE /\ todo' = Tail(todo)
                  /\ IF Len(todo) = 1
                     THEN pc' = "export" /\ UNCHANGED <<disk, readable>>
                     ELSE /\ pc' = "scan"
                          /\ disk' = todo[2].data
                          /\ readable' = todo[2].readable
    /\ UNCHANGED <<HAS_LZ4, call, nreads, nwrites, pak_folder, mods_data, ncalls>>
    /\ UNCHANGED <<sort_vars, ui_vars>>

\* line 652: mods_data.json is written from the list
export_mods_to_json_objects ==
    /\ pc = "export"
    /\ mods_data' = Keys(mod_info_list)
    /\ pc' = "returned"
    /\ UNCHANGED <<disk, readable, HAS_LZ4, header, files, call, nreads, nwrites,
                   pak_folder, todo, mod_info_list, ncalls, appended>>
    /\ UNCHANGED <<sort_vars, ui_vars>>

InitBatch == Init /\ disk = BaseArchives[1]

NextBatch ==
    \/ extract_mod_data
    \/ extract_bg3_mod_info
    \/ export_mods_to_json_objects

SpecBatch == InitBatch /\ [][NextBatch]_vars

---------------------------------------------------------------------------
(* The sorter (src/loadordersort.py).  A name is a sequence of character   *)
(* codes; a document is the list of the ModuleShortDesc nodes under        *)
(* Mods/children, each a node identity and the value of its Name           *)
(* attribute; a dict is the sequence of its items in insertion order.      *)

DASH == 45
SPACE == 32

UNSORTED == <<85, 78, 83, 79, 82, 84, 69, 68>>

\* name.startswith("--")
IsSeparator(name) == Len(name) >= 2 /\ name[1] = DASH /\ name[2] = DASH

\* sub in s
Contains(s, sub) ==
    \E i \in 0..(Len(s) - Len(sub)) : SubSeq(s, i + 1, i + Len(sub)) = sub

\* str.strip()
Strip(s) ==
    LET Kept == { i \in 1..Len(s) : s[i] \notin {SPACE, 9, 10, 11, 12, 13} }
    IN  IF Kept = {} THEN <<>>
        ELSE SubSeq(s, CHOOSE i \in Kept : \A j \in Kept : i <= j,
                       CHOOSE i \in Kept : \A j \in Kept : i >= j)

\* re.sub(r'[-|>]', '', name).strip()
Clean(name) == Strip(SelectSeq(name, LAMBDA c : c \notin {DASH, 124, 62}))

\* list.insert(index, x) for index >= 0
ListInsert(list, index, x) ==
    SubSeq(list, 1, Min(index, Len(list))) \o <<x>>
    \o SubSeq(list, Min(index, Len(list)) + 1, Len(list))

\* the list without the elements at the 1-based positions gone
Without(list, gone) ==
    LET Keep[i \in 0..Len(list)] ==
            IF i = 0 THEN <<>>
            ELSE IF i \in gone THEN Keep[i - 1]
            ELSE Append(Keep[i - 1], list[i])
    IN  Keep[Len(list)]

\* F(x) for a local variable x, evaluated once
Once(x, F(_)) == CHOOSE y \in { F(v) : v \in {x} } : TRUE

\* d[key] = value on a dict
DictSet(d, key, value) ==
    LET Set(dict) ==
            IF \E i \in 1..Len(dict) : dict[i].key = key
            THEN [i \in 1..Len(dict) |->
                    IF dict[i].key = key THEN [key |-> key, value |-> value]
                    ELSE dict[i]]
            ELSE Append(dict, [key |-> key, value |-> value])
    IN  Once(d, Set)

HasKey(d, key) == \E i \in 1..Len(d) : d[i].key = key

Sum(lens) ==
    LET Acc[i \in 0..Len(lens)] == IF i = 0 THEN 0 ELSE Acc[i - 1] + lens[i]
    IN  Acc[Len(lens)]

\* the concatenation of the lists of a list
Flatten(lists) ==
    LET Acc[i \in 0..Len(lists)] == IF i = 0 THEN <<>> ELSE Acc[i - 1] \o lists[i]
    IN  Acc[Len(lists)]

\* lines 191-200: the name of the first separator with UNSORTED in it, <<>>
\* for None
UnsortedCategory(module_nodes) ==
    LET Found == { i \in 1..Len(module_nodes) :
                     /\ IsSeparator(module_nodes[i].name)
                     /\ Contains(module_nodes[i].name, UNSORTED) }
    IN  IF Found = {} THEN <<>>
        ELSE module_nodes[CHOOSE i \in Found : \A j \in Found : i <= j].name

\* lines 205-222: the nodes between the UNSORTED separator and the next one
RECURSIVE UnsortedNodes(_, _, _, _)
UnsortedNodes(module_nodes, i, in_unsorted, unsorted_category) ==
    IF i > Len(module_nodes) THEN <<>>
    ELSE IF module_nodes[i].name = unsorted_category
    THEN UnsortedNodes(module_nodes, i + 1, TRUE, unsorted_category)
    ELSE IF in_unsorted /\ IsSeparator(module_nodes[i].name) THEN <<>>
    ELSE (IF in_unsorted THEN <<module_nodes[i]>> ELSE <<>>)
         \o UnsortedNodes(module_nodes, i + 1, in_unsorted, unsorted_category)

\* lines 225-229: the dict from a mod to the last category that lists it,
\* UNSORTED left out
ModToCategory(categorization) ==
    LET Pairs == Flatten([c \in 1..Len(categorization) |->
                    IF categorization[c].key = UNSORTED THEN <<>>
                    ELSE [m \in 1..Len(categorization[c].value) |->
                            [key |-> categorization[c].value[m],
                             value |-> categorization[c].key]]])
        Dict[i \in 0..Len(Pairs)] ==
            IF i = 0 THEN <<>> ELSE DictSet(Dict[i - 1], Pairs[i].key, Pairs[i].value)
    IN  Dict[Len(Pairs)]

\* lines 232-236: the nodes to move, in the order of the dict
MovePlan(mod_to_category, unsorted_node_objs) ==
    Flatten([k \in 1..Len(mod_to_category) |->
        LET Named == SelectSeq(unsorted_node_objs,
                               LAMBDA n : n.name = mod_to_category[k].key)
        IN  [i \in 1..Len(Named) |->
                [node |-> Named[i], category |-> mod_to_category[k].value]]])

\* lines 252-286: the nodes of the plan inserted one by one; the position is
\* found in module_nodes, the list read at line 174, which is read again
\* (line 285) only after an insertion
RECURSIVE InsertMoved(_, _, _, _)
InsertMoved(children, module_nodes, move_plan, k) ==
    IF k > Len(move_plan) THEN children
    ELSE
    LET Targets == { i \in 1..Len(module_nodes) :
                       /\ IsSeparator(module_nodes[i].name)
                       /\ Clean(module_nodes[i].name) = move_plan[k].category }
        Position(i) ==
            LET Nexts == { j \in (i + 1)..Len(module_nodes) :
                             IsSeparator(module_nodes[j].name) }
            IN  IF Nexts = {} THEN Len(module_nodes)
                ELSE (CHOOSE j \in Nexts : \A n \in Nexts : j <= n) - 1
        Inserted(c) == InsertMoved(c, c, move_plan, k + 1)
    IN  IF Targets = {}
        THEN InsertMoved(children, module_nodes, move_plan, k + 1)
        ELSE Inserted(ListInsert(children,
                                 Position(CHOOSE i \in Targets :
                                              \A n \in Targets : i <= n),
                                 move_plan[k].node))

\* process_existing_txt_file on the document children: the document
\* written, the nodes of the UNSORTED section and the plan
ProcessExisting(children, categorization) ==
    LET unsorted_category == UnsortedCategory(children)
        Moved(unsorted_node_objs, move_plan) ==
            [xml |-> InsertMoved(
                        Without(children,
                                { i \in 1..Len(children) :
                                    \E p \in 1..Len(move_plan) :
                                       move_plan[p].node = children[i] }),
                        children, move_plan, 1),
             unsorted |-> unsorted_node_objs,
             plan |-> move_plan]
        Planned(unsorted_node_objs) ==
            Moved(unsorted_node_objs,
                  MovePlan(ModToCategory(categorization), unsorted_node_objs))
    IN  IF unsorted_category = <<>>
        THEN [xml |-> children, unsorted |-> <<>>, plan |-> <<>>]
        ELSE Planned(UnsortedNodes(children, 1, FALSE, unsorted_category))

\* lines 27-63: the cleaned categories, the names of the nodes of the
\* UNSORTED sections and the flag found_unsorted after the nodes 1..i
RECURSIVE ScanDocument(_, _)
ScanDocument(module_nodes, i) ==
    IF i = 0 THEN [categories |-> <<>>, unsorted |-> <<>>, found |-> FALSE]
    ELSE
    LET Step(r, name) ==
            IF IsSeparator(name)
            THEN IF Contains(name, UNSORTED) THEN [r EXCEPT !.found = TRUE]
                 ELSE [r EXCEPT !.categories = Append(@, Clean(name)),
                                !.found = FALSE]
            ELSE IF r.found THEN [r EXCEPT !.unsorted = Append(@, name)]
            ELSE r
    IN  Step(ScanDocument(module_nodes, i - 1), module_nodes[i].name)

\* the elements of list, each once, in the order of its first occurrence
Unique(list) ==
    SelectSeq([i \in 1..Len(list) |->
                 IF \E j \in 1..(i - 1) : list[j] = list[i] THEN <<>> ELSE <<list[i]>>],
              LAMBDA x : x # <<>>)

\* the keys of {category: ... for category in categories}
DictKeys(categories) == Flatten(Unique(categories))

\* the dict with an empty list for every category
EmptyLists(categories) ==
    LET Lists(keys) == [i \in 1..Len(keys) |-> [key |-> keys[i], value |-> <<>>]]
    IN  Once(DictKeys(categories), Lists)

DictGet(d, key) == d[CHOOSE i \in 1..Len(d) : d[i].key = key].value

\* lines 594-613: normalize_category_name, <<>> for None... a match is a key
\* of the categories: equal, equal in lower case, or one contained in the
\* other in lower case
NormalizeCategoryName(key, valid_categories) ==
    LET Direct == { i \in 1..Len(valid_categories) : valid_categories[i] = key }
        NoCase == { i \in 1..Len(valid_categories) :
                      Lower(valid_categories[i]) = Lower(key) }
        Fuzzy == { i \in 1..Len(valid_categories) :
                     \/ Contains(Lower(valid_categories[i]), Lower(key))
                     \/ Contains(Lower(key), Lower(valid_categories[i])) }
        First(S) == <<valid_categories[CHOOSE i \in S : \A j \in S : i <= j]>>
    IN  IF Direct # {} THEN <<key>>
        ELSE IF NoCase # {} THEN First(NoCase)
        ELSE IF Fuzzy # {} THEN First(Fuzzy)
        ELSE <<>>

\* a JSON value that is no list of strings
NotAList == <<<<-1>>>>

\* lines 562-592: fix_categorization_response
FixCategorizationResponse(response_data, categories, valid_mods) ==
    LET Valid(value, found) ==
            IF value = NotAList THEN <<>>
            ELSE LET u == Unique(value)
                 IN  SelectSeq([i \in 1..Len(u) |->
                                  IF /\ \E v \in 1..Len(valid_mods) : valid_mods[v] = u[i][1]
                                     /\ ~\E f \in 1..Len(found) : found[f] = u[i][1]
                                  THEN u[i] ELSE <<>>],
                               LAMBDA x : x # <<>>)
        Fixed[i \in 0..Len(response_data)] ==
            IF i = 0 THEN [dict |-> EmptyLists(categories), found |-> <<>>]
            ELSE
            LET Add(key, mods, fixed) ==
                    IF key = <<>> THEN fixed
                    ELSE [dict |-> DictSet(fixed.dict, key[1],
                                           DictGet(fixed.dict, key[1])
                                           \o Flatten(mods)),
                          found |-> fixed.found \o Flatten(mods)]
                Item(fixed) ==
                    Add(NormalizeCategoryName(response_data[i].key, categories),
                        Valid(response_data[i].value, fixed.found), fixed)
            IN  Once(Fixed[i - 1], Item)
        Missing(found) ==
            SelectSeq(Flatten(Unique(valid_mods)),
                      LAMBDA m : ~\E f \in 1..Len(found) : found[f] = m)
        Done(r) ==
            IF Missing(r.found) # <<>> /\ HasKey(r.dict, UNSORTED)
            THEN DictSet(r.dict, UNSORTED,
                         DictGet(r.dict, UNSORTED) \o Missing(r.found))
            ELSE r.dict
    IN  Done(Fixed[Len(response_data)])

Raised == [exc |-> TRUE, result |-> <<>>]

Validators == {"fields", "mods", "raises"}

\* lines 533-560: validate_with_pydantic on the parsed response.  The model
\* class has one list-of-strings field for every category, empty by default,
\* and ignores other keys; a response that is no dict raises a TypeError.
\* What the library does with the class of lines 500-530 is one of
\* Validators: it checks the fields only, it also runs the validator of
\* lines 511-526 (attached after the class is made, line 529), or it raises
\* another error than ValidationError
ValidateWithPydantic(response, validator, categories, valid_mods) ==
    IF response.kind # "dict" \/ validator = "raises" THEN Raised
    ELSE
    LET keys == DictKeys(categories)
        Given(c) == IF HasKey(response.items, c) THEN DictGet(response.items, c)
                    ELSE <<>>
        all == Flatten([i \in 1..Len(keys) |->
                          IF Given(keys[i]) = NotAList THEN <<>> ELSE Given(keys[i])])
        Rejected ==
            \/ \E i \in 1..Len(keys) : Given(keys[i]) = NotAList
            \/ /\ validator = "mods"
               /\ \/ \E i \in 1..Len(all) :
                        ~\E v \in 1..Len(valid_mods) : valid_mods[v] = all[i]
                  \/ \E i, j \in 1..Len(all) : i # j /\ all[i] = all[j]
    IN  IF Rejected
        THEN [exc |-> FALSE,
              result |-> FixCategorizationResponse(response.items, categories,
                                                   valid_mods)]
        ELSE [exc |-> FALSE,
              result |-> [i \in 1..Len(keys) |->
                            [key |-> keys[i], value |-> Given(keys[i])]]]

\* lines 615-626: create_fallback_categorization
CreateFallbackCategorization(categories, mod_names) ==
    LET Cleaned == [i \in 1..Len(categories) |->
                      Strip(SelectSeq(categories[i], LAMBDA c : c \notin {DASH, 124}))]
    IN  DictSet(EmptyLists(Cleaned), UNSORTED, mod_names)

MAX_RETRIES == 3

\* sum(len(mods) for mods in validated_result.values())
CategorizedCount(result) == Sum([i \in 1..Len(result) |-> Len(result[i].value)])

\* success_rate >= 0.95 and best_rate >= 0.5 (lines 345 and 360), for a rate
\* kept as the number of mods categorized out of total
AtLeast95(count, total) == total > 0 /\ 20 * count >= 19 * total

\* a test that takes every rate for one of at least a half
AtLeastHalfAlways(count, total) == TRUE

AtLeastHalf(count, total) == total > 0 /\ 2 * count >= total

\* lines 335-365: one pass of the loop of ask_groq in the state g, from the
\* result of _call_groq_api (kind "none" is None) on, and the return after
\* the last pass
AskGroqAttempt(g, response, validator) ==
    LET total_mods == Len(g.mod_names)
        Returned(h, value) == [h EXCEPT !.pc = "returned", !.ret = <<value>>]
        AfterLoop(h) ==
            IF h.attempt < MAX_RETRIES THEN [h EXCEPT !.pc = "calling"]
            ELSE IF AtLeastHalf(h.best_rate, total_mods)
            THEN [h EXCEPT !.pc = "returned", !.ret = h.best_result]
            ELSE Returned(h, CreateFallbackCategorization(h.categories, h.mod_names))
        Pass(h, v) ==
            IF response.kind = "none"
            THEN AfterLoop([h EXCEPT !.seen = Append(@, [kind |-> "none", rate |-> 0, result |-> <<>>])])
            ELSE IF v.exc
            THEN AfterLoop([h EXCEPT !.seen = Append(@, [kind |-> "error", rate |-> 0, result |-> <<>>])])
            ELSE
            LET Rated(success_rate, k) ==
                    IF AtLeast95(success_rate, total_mods)
                    THEN Returned(k, v.result)
                    ELSE IF success_rate > k.best_rate
                    THEN AfterLoop([k EXCEPT !.best_rate = success_rate,
                                             !.best_result = <<v.result>>])
                    ELSE AfterLoop(k)
            IN  Rated(IF total_mods > 0 THEN CategorizedCount(v.result) ELSE 0,
                      [h EXCEPT !.seen = Append(@, [kind |-> "ok",
                                                    rate |-> IF total_mods > 0 THEN CategorizedCount(v.result) ELSE 0,
                                                    result |-> v.result])])
    IN  Once(ValidateWithPydantic(response, validator, g.categories, g.mod_names),
             LAMBDA v : Pass([g EXCEPT !.attempt = @ + 1], v))

\* the list of a set of names, in the order the names have in order
ListOfSet(names, order) ==
    SelectSeq(order, LAMBDA m : \E i \in 1..Len(names) : names[i] = m)

\* lines 109-118: mod_to_category, the category of every mod of the
\* categorization returned (the last one that lists it)
ModToCategoryOfSets(categorization, order) ==
    LET Dict(Pairs) ==
            LET Acc[i \in 0..Len(Pairs)] ==
                    IF i = 0 THEN <<>>
                    ELSE DictSet(Acc[i - 1], Pairs[i].key, Pairs[i].value)
            IN  Acc[Len(Pairs)]
    IN  Once(Flatten([c \in 1..Len(categorization) |->
                [m \in 1..Len(ListOfSet(categorization[c].value, order)) |->
                    [key |-> ListOfSet(categorization[c].value, order)[m],
                     value |-> categorization[c].key]]]),
             Dict)

\* lines 119-137: the categorization written to the text file
Normalize(categorization, categories, unsorted_nodes, order) ==
    LET Written(mod_to_category) ==
            LET Place(i, placed) ==
                    IF HasKey(placed, mod_to_category[i].value)
                    THEN DictSet(placed, mod_to_category[i].value,
                                 Append(DictGet(placed, mod_to_category[i].value),
                                        mod_to_category[i].key))
                    ELSE placed
                Placed[i \in 0..Len(mod_to_category)] ==
                    IF i = 0 THEN EmptyLists(categories)
                    ELSE Once(Placed[i - 1], LAMBDA placed : Place(i, placed))
                uncategorized_mods ==
                    SelectSeq(unsorted_nodes,
                              LAMBDA m : ~\E i \in 1..Len(mod_to_category) :
                                            /\ mod_to_category[i].key = m
                                            /\ HasKey(EmptyLists(categories),
                                                      mod_to_category[i].value))
            IN  IF uncategorized_mods # <<>>
                THEN DictSet(Placed[Len(mod_to_category)], UNSORTED,
                             ListOfSet(uncategorized_mods, order))
                ELSE Placed[Len(mod_to_category)]
    IN  Once(ModToCategoryOfSets(categorization, order), Written)

---------------------------------------------------------------------------
(* The sorter as a state machine: a load order document, the text file of
   the categorization, and the calls of the two operations. *)

SepUnsorted == <<DASH, DASH>> \o UNSORTED \o <<DASH, DASH>>

SepA == <<DASH, DASH, 65, DASH, DASH>>

SepB == <<DASH, DASH, SPACE, 66>>

\* a separator whose cleaned name is UNSORTED though its name is not
SepSplit == <<DASH, DASH, 85, 78, DASH, 83, 79, 82, 84, 69, 68>>

KeyA == <<65>>

KeyB == <<66>>

KeyX == <<88>>

ModM == <<109>>

ModN == <<110>>

ModP == <<112>>

ModQ == <<113>>

\* the ModuleShortDesc nodes of a document with these names, in order
Doc(names) == [i \in 1..Len(names) |-> [id |-> i, name |-> names[i]]]

Documents ==
    { Doc(<<SepUnsorted, ModM, ModN, SepA, <<97>>, SepB, <<98>>>>),
      Doc(<<SepA, <<97>>, SepUnsorted, ModM, ModN, SepB, <<98>>>>),
      Doc(<<SepA, <<97>>, SepB, <<98>>, SepUnsorted, ModM, ModN, ModP>>),
      Doc(<<SepUnsorted, ModM, ModM, SepA, SepB>>),
      Doc(<<SepUnsorted, ModM, ModN, SepSplit, SepA>>),
      Doc(<<SepA, ModM, SepB, ModN>>),
      Doc(<<SepUnsorted, SepA, <<97>>>>) }

Item(key, value) == [key |-> key, value |-> value]

\* the categorization with these keys that lists each of the mods under the
\* key target gives it (under no key for <<>>)
Categorization(keys, mods, target) ==
    [k \in 1..Len(keys) |->
        Item(keys[k], SelectSeq(mods, LAMBDA m : target[m] = keys[k]))]

Categorizations ==
    { Categorization(keys, mods, target) :
        keys \in {<<KeyA, KeyB, KeyX, UNSORTED>>, <<UNSORTED, KeyB, KeyA, KeyX>>},
        mods \in {<<ModM, ModN>>},
        target \in [{ModM, ModN} -> {KeyA, KeyB, KeyX, UNSORTED, <<>>}] }
    \cup { <<Item(KeyA, <<ModM>>), Item(KeyB, <<ModM, ModN>>)>>,
           <<Item(KeyA, <<ModN, ModM>>)>>,
           <<Item(KeyB, <<ModP, ModN, ModM>>)>> }

\* what _call_groq_api gives: None, a JSON value that is no object, or an
\* object
Responses ==
    { [kind |-> "none"], [kind |-> "list"] }
    \cup { [kind |-> "dict", items |-> items] :
             items \in { <<>>,
                         <<Item(KeyA, <<ModM, ModN>>)>>,
                         <<Item(KeyA, <<ModM>>)>>,
                         <<Item(KeyB, <<ModN>>), Item(KeyX, <<ModM>>)>>,
                         <<Item(KeyA, <<ModM>>), Item(KeyB, <<ModM, ModN>>)>>,
                         <<Item(KeyA, <<ModM, ModQ>>)>>,
                         <<Item(KeyA, <<ModM, ModM>>)>>,
                         <<Item(<<97>>, <<ModM, ModN>>)>>,
                         <<Item(KeyA, NotAList), Item(<<98>>, <<ModM, ModN>>)>>,
                         <<Item(KeyA, <<ModM, ModN>>), Item(KeyB, <<ModP>>)>>,
                         <<Item(KeyA, <<ModP, ModN>>)>>,
                         <<Item(UNSORTED, <<ModM>>)>> } }

\* the orders in which a set of names can be listed
NameOrders ==
    { order \in [1..3 -> {ModM, ModN, ModP}] :
        \A i, j \in 1..3 : i # j => order[i] # order[j] }

MaxSorts == 2

\* lines 1268-1278 of the interface: the text of the editor written to the
\* text file
save_text_editor_content ==
    /\ groq.pc \notin {"calling", "validating"}
    /\ sort.runs < MaxSorts
    /\ txt' \in Categorizations
    /\ groq' = NoGroq
    /\ UNCHANGED <<xml, sort, pak_vars, batch_vars, ui_vars>>

\* process_existing_txt_file, run when the text file has content (lines
\* 362-365 of the interface)
process_existing_txt_file ==
    /\ groq.pc \notin {"calling", "validating"}
    /\ txt # <<>>
    /\ sort.runs < MaxSorts
    /\ \E r \in {ProcessExisting(xml, txt)} :
          /\ xml' = r.xml
          /\ txt' = IF UnsortedCategory(xml) = <<>> THEN txt ELSE <<>>
          /\ sort' = [op |-> "existing", before |-> xml, plan |-> r.plan,
                      unsorted |-> r.unsorted, runs |-> sort.runs + 1]
    /\ groq' = NoGroq
    /\ UNCHANGED <<pak_vars, batch_vars, ui_vars>>

\* process_empty_txt_file up to its call of ask_groq (lines 13-108)
process_empty_txt_file ==
    /\ groq.pc \notin {"calling", "validating"}
    /\ txt = <<>>
    /\ sort.runs < MaxSorts
    /\ \E scan \in {ScanDocument(xml, Len(xml))} :
          /\ sort' = [op |-> "empty", before |-> xml, plan |-> <<>>,
                      unsorted |-> scan.unsorted, runs |-> sort.runs + 1]
          /\ groq' = IF scan.unsorted = <<>> THEN NoGroq
                     ELSE [NoGroq EXCEPT !.pc = "calling",
                                         !.categories = scan.categories,
                                         !.mod_names = scan.unsorted]
    /\ UNCHANGED <<xml, txt, pak_vars, batch_vars, ui_vars>>

\* line 333: the call of the API of an attempt of ask_groq, answered or not
_call_groq_api ==
    /\ groq.pc = "calling"
    /\ \E response \in Responses :
          groq' = [groq EXCEPT !.pc = "validating", !.response = response,
                               !.calls = @ + 1]
    /\ UNCHANGED <<xml, txt, sort, pak_vars, batch_vars, ui_vars>>

\* the rest of an attempt of ask_groq; when it returns,
\* process_empty_txt_file writes the normalised categorization (lines
\* 109-141), which it cannot make of None
ask_groq ==
    /\ groq.pc = "validating"
    /\ \E validator \in Validators :
       \E after \in {AskGroqAttempt(groq, groq.response, validator)} :
          /\ groq' = after
          /\ IF after.pc = "returned" /\ after.ret # <<>>
             THEN \E order \in NameOrders :
                     txt' = Normalize(after.ret[1], groq.categories,
                                      groq.mod_names, order)
             ELSE txt' = txt
    /\ UNCHANGED <<xml, sort, pak_vars, batch_vars, ui_vars>>

InitSort ==
    /\ PakInit
    /\ HAS_LZ4
    /\ disk = BaseArchives[1]
    /\ UiIdle
    /\ xml \in Documents
    /\ txt = <<>>
    /\ groq = NoGroq
    /\ sort = NoSort

NextSort ==
    \/ save_text_editor_content
    \/ process_existing_txt_file
    \/ process_empty_txt_file
    \/ _call_groq_api
    \/ ask_groq

SpecSort == InitSort /\ [][NextSort]_vars

\* ask_groq alone: every call of process_empty_txt_file and the attempts of
\* its ask_groq, each attempt made once it is due
NextAsk ==
    \/ process_empty_txt_file
    \/ _call_groq_api
    \/ ask_groq

SpecAsk ==
    InitSort /\ [][NextAsk]_vars /\ WF_vars(_call_groq_api) /\ WF_vars(ask_groq)

---------------------------------------------------------------------------
(* The interface (src/loadordersortui.py): the two lists mod_items and     *)
(* xml_nodes, and the history of commands with its index.  An item is the  *)
(* ModItem made for the node with the same id; a selection is the set of   *)
(* the 0-based indices of the selected rows.                                *)

\* lines 527-593: parse_xml_file, the items made of the nodes of a document
ParseXmlFile(children) ==
    [i \in 1..Len(children) |->
        [id |-> children[i].id,
         name |-> IF IsSeparator(children[i].name) THEN Clean(children[i].name)
                  ELSE children[i].name,
         is_category |-> IsSeparator(children[i].name)]]

\* lines 1043-1052: the selected indices in ascending order
SortedIndices(selection) ==
    LET Rank(i) == Cardinality({ j \in selection : j < i })
    IN  [k \in 1..Cardinality(selection) |->
            CHOOSE i \in selection : Rank(i) = k - 1]

\* the removal of the selected elements and their insertion, in order, at
\* target_index, target_index + 1, ... (lines 1079-1087, 1129-1137,
\* 1188-1196 and 906-915)
MoveSelected(list, selection, target_index) ==
    LET moved == [k \in 1..Cardinality(selection) |->
                    list[SortedIndices(selection)[k] + 1]]
        Rest == Without(list, { i + 1 : i \in selection })
        Inserted[k \in 0..Len(moved)] ==
            IF k = 0 THEN Rest
            ELSE ListInsert(Inserted[k - 1], target_index + k - 1, moved[k])
    IN  Inserted[Len(moved)]

\* lines 906-909: the target index after the removal of the selected rows,
\* the last one first
AdjustedTarget(selection, target_index) ==
    LET idx == SortedIndices(selection)
        After[k \in 0..Len(idx)] ==
            IF k = 0 THEN target_index
            ELSE IF idx[Len(idx) + 1 - k] < After[k - 1] THEN After[k - 1] - 1
            ELSE After[k - 1]
    IN  After[Len(idx)]

\* lines 69-76: the command of a move, with copies of the four lists
MoveItemsCommand(old_items, new_items, old_xml_nodes, new_xml_nodes) ==
    [kind |-> "move", old_items |-> old_items, new_items |-> new_items,
     old_xml_nodes |-> old_xml_nodes, new_xml_nodes |-> new_xml_nodes]

\* lines 100-104: the command of an edit of the text, whose contents play
\* no part in the lists
TextEditCommand == [kind |-> "text"]

\* an undo that restores the items and leaves the nodes
UndoItemsOnly(command, items, nodes) ==
    IF command.kind = "move"
    THEN [items |-> command.old_items, nodes |-> nodes]
    ELSE [items |-> items, nodes |-> nodes]

\* lines 89-92 and 110-113: command.undo() on the two lists
Undo(command, items, nodes) ==
    IF command.kind = "move"
    THEN [items |-> command.old_items, nodes |-> command.old_xml_nodes]
    ELSE [items |-> items, nodes |-> nodes]

\* lines 78-81 and 105-108: command.execute() on the two lists
Execute(command, items, nodes) ==
    IF command.kind = "move"
    THEN [items |-> command.new_items, nodes |-> command.new_xml_nodes]
    ELSE [items |-> items, nodes |-> nodes]

\* a history that grows at its end whatever the index
AppendCommand(history, index, command) == Append(history, command)

\* lines 1386-1389: the history after add_command
AddCommand(history, index, command) ==
    Append(SubSeq(history, 1, index + 1), command)

MaxHistory == 1

MoveOps ==
    {"move_items_up", "move_items_down", "set_item_index",
     "move_items_to_target_with_position"}

UiDocuments ==
    { Doc(<<SepA, ModM, ModN>>), Doc(<<ModM, ModM>>) }

Selections == SUBSET (0..(Len(mod_items) - 1)) \ {{}}

\* the record of the operation op: whether it did what it is for, and how
\* many commands add_command discarded
Op(op, ok) == [ui EXCEPT !.op = op, !.ok = ok, !.dropped = 0,
                         !.before_items = <<>>,
                         !.before_nodes = <<>>, !.after_items = <<>>,
                         !.after_nodes = <<>>]

\* lines 1089-1099, 1139-1149, 1198-1208 and 917-927: the lists of a move
\* become the lists moved and the command of the move is added
Moved(op, selection, target_index) ==
    /\ current_command_index + 2 <= MaxHistory
    /\ \E new_items \in {MoveSelected(mod_items, selection, target_index)},
          new_xml_nodes \in {MoveSelected(xml_nodes, selection, target_index)} :
          /\ mod_items' = new_items
          /\ xml_nodes' = new_xml_nodes
          /\ command_history' =
                AddCommand(command_history, current_command_index,
                           MoveItemsCommand(mod_items, new_items,
                                            xml_nodes, new_xml_nodes))
          /\ ui' = [ui EXCEPT !.op = op, !.ok = TRUE,
                              !.dropped = Len(command_history)
                                          - (current_command_index + 1),
                              !.before_items = mod_items,
                              !.before_nodes = xml_nodes,
                              !.after_items = new_items,
                              !.after_nodes = new_xml_nodes]
    /\ current_command_index' = current_command_index + 1
    /\ UNCHANGED <<pak_vars, batch_vars, sort_vars>>

\* a handler that returns without a change
Returns(op) ==
    /\ ui' = Op(op, FALSE)
    /\ UNCHANGED <<mod_items, xml_nodes, command_history, current_command_index,
                   pak_vars, batch_vars, sort_vars>>

\* lines 1054-1102
move_items_up ==
    \E selection \in Selections :
       IF SortedIndices(selection)[1] <= 0 THEN Returns("move_items_up")
       ELSE Moved("move_items_up", selection, SortedIndices(selection)[1] - 1)

\* lines 1104-1152
move_items_down ==
    \E selection \in Selections :
       LET last_index == SortedIndices(selection)[Cardinality(selection)]
       IN  IF last_index >= Len(mod_items) - 1 THEN Returns("move_items_down")
           ELSE Moved("move_items_down", selection,
                      last_index + 2 - Cardinality(selection))

\* lines 1154-1211: the dialog gives an index of 1..len(mod_items) or None
set_item_index ==
    \E selection \in Selections :
       \/ Returns("set_item_index")
       \/ \E new_idx \in 1..Len(mod_items) :
             Moved("set_item_index", selection, new_idx - 1)

\* lines 872-927: the rows dropped above or below the row target
move_items_to_target_with_position ==
    \E selection \in Selections, target \in 0..(Len(mod_items) - 1),
       position \in {"above", "below"} :
       Moved("move_items_to_target_with_position", selection,
             AdjustedTarget(selection,
                            IF position = "below" THEN target + 1 ELSE target))

\* lines 366-450: a move of lines in the text editor adds its command
move_line ==
    /\ current_command_index + 2 <= MaxHistory
    /\ command_history' =
          AddCommand(command_history, current_command_index, TextEditCommand)
    /\ current_command_index' = current_command_index + 1
    /\ ui' = [Op("move_line", TRUE) EXCEPT
                 !.dropped = Len(command_history) - (current_command_index + 1)]
    /\ UNCHANGED <<mod_items, xml_nodes, pak_vars, batch_vars, sort_vars>>

\* lines 1396-1405
undo_action ==
    IF current_command_index >= 0
    THEN /\ \E r \in {Undo(command_history[current_command_index + 1],
                           mod_items, xml_nodes)} :
               /\ mod_items' = r.items
               /\ xml_nodes' = r.nodes
         /\ current_command_index' = current_command_index - 1
         /\ ui' = IF ui.op \in MoveOps /\ ui.ok
                  THEN [ui EXCEPT !.op = "undo_action", !.ok = TRUE, !.dropped = 0]
                  ELSE Op("undo_action", TRUE)
         /\ UNCHANGED <<command_history, pak_vars, batch_vars, sort_vars>>
    ELSE Returns("undo_action")

\* lines 1407-1416
redo_action ==
    IF current_command_index < Len(command_history) - 1
    THEN /\ \E r \in {Execute(command_history[current_command_index + 2],
                              mod_items, xml_nodes)} :
               /\ mod_items' = r.items
               /\ xml_nodes' = r.nodes
         /\ current_command_index' = current_command_index + 1
         /\ ui' = IF ui.op = "undo_action" /\ ui.ok /\ ui.before_items # <<>>
                  THEN [ui EXCEPT !.op = "redo_action", !.ok = TRUE]
                  ELSE Op("redo_action", TRUE)
         /\ UNCHANGED <<command_history, pak_vars, batch_vars, sort_vars>>
    ELSE Returns("redo_action")

\* lines 509-525: load_xml_file, op being the handler that calls it.  With
\* no path selected, or when the file cannot be parsed, nothing is loaded
\* and the history stays
LoadXmlFile(op) ==
    \/ Returns(op)
    \/ /\ \E children \in UiDocuments :
             /\ mod_items' = ParseXmlFile(children)
             /\ xml_nodes' = children
             /\ ui' = [Op(op, TRUE) EXCEPT
                          !.loaded_items = ParseXmlFile(children),
                          !.loaded_nodes = children]
       /\ command_history' = <<>>
       /\ current_command_index' = -1
       /\ UNCHANGED <<pak_vars, batch_vars, sort_vars>>

load_xml_file == LoadXmlFile("load_xml_file")

\* lines 1335-1344: reset_changes, declined or confirmed; confirmed, the
\* history is emptied whether the file could be loaded or not
reset_changes ==
    \/ Returns("reset_changes")
    \/ /\ \/ \E children \in UiDocuments :
                /\ mod_items' = ParseXmlFile(children)
                /\ xml_nodes' = children
                /\ ui' = [Op("reset_changes", TRUE) EXCEPT
                             !.loaded_items = ParseXmlFile(children),
                             !.loaded_nodes = children]
          \/ /\ UNCHANGED <<mod_items, xml_nodes>>
             /\ ui' = Op("reset_changes", TRUE)
       /\ command_history' = <<>>
       /\ current_command_index' = -1
       /\ UNCHANGED <<pak_vars, batch_vars, sort_vars>>

InitUI ==
    /\ PakInit
    /\ HAS_LZ4
    /\ disk = BaseArchives[1]
    /\ SortIdle
    /\ UiIdle

NextUI ==
    \/ load_xml_file
    \/ reset_changes
    \/ move_items_up
    \/ move_items_down
    \/ set_item_index
    \/ move_items_to_target_with_position
    \/ move_line
    \/ undo_action
    \/ redo_action

SpecUI == InitUI /\ [][NextUI]_vars

---------------------------------------------------------------------------
(* Properties                                                              *)

\* the archive was read by the last call, or had been read before it
Loaded == call.ran => call.opened

\* the names of the members of a built archive, decoded
MemberNames(a) == [i \in 1..Len(a.members) |-> DecodeIgnore(a.members[i].name, 1)]

\* the first entry of fs whose lower-cased name is that of s, or 0
FirstMatch(fs, s) ==
    IF \E i \in 1..Len(fs) : Lower(fs[i].name) = Lower(s)
    THEN CHOOSE i \in 1..Len(fs) :
            /\ Lower(fs[i].name) = Lower(s)
            /\ \A j \in 1..(i - 1) : Lower(fs[j].name) # Lower(s)
    ELSE 0

\* C1: list_files returns a list and extract_file returns bytes or None,
\* whatever the file holds and whether or not it can be opened; no call
\* raises; a file shorter than 12 bytes fails to open and lists no member.
C1_TypedResults ==
    /\ call.op = "list_files" => call.ret = "list"
    /\ call.op = "extract_file" => call.ret \in {"bytes", "None"}
    /\ Len(disk) < V13_MIN_FILE =>
          /\ header = <<>>
          /\ files = <<>>
          /\ call.op = "list_files" => call.value = <<>>
          /\ call.op = "extract_file" => call.ret = "None"

\* C1: a call on a file that cannot be opened has returned an empty list
C1_Witness ==
    /\ call.op = "list_files"
    /\ call.ran
    /\ ~call.opened
    /\ call.ret = "list"
    /\ call.value = <<>>

\* C2: on a well-formed archive with the trailing header, list_files
\* returns the names inserted and extract_file(name) returns the payload of
\* the member of that name byte for byte, stored compressed or raw.
C2_RoundTrip ==
    \A a \in ValidSpecs :
        (a.layout = "trailing" /\ disk = Built[a] /\ HAS_LZ4 /\ Loaded) =>
            /\ call.op = "list_files" => call.value = MemberNames(a)
            /\ \A i \in 1..Len(a.members) :
                  ( /\ call.op = "extract_file"
                    /\ call.arg = MemberNames(a)[i]
                    /\ FirstMatch(files, call.arg) = i
                    /\ call.io # "fail" )
                  => /\ call.ret = "bytes"
                     /\ call.value = Payload(a.members[i])

HasLeadingMagic(data) == SubSeq(data, 1, 4) = LSPK_BYTES

HasTrailingMagic(data) == SubSeq(data, Len(data) - 3, Len(data)) = LSPK_BYTES

\* the header size before the trailing magic leaves room for the 28 bytes
\* of the header and lies within the file
TrailingWellFormed(data) ==
    LET header_size == U32(Slice(data, Len(data) - 8, Len(data) - 4))
    IN  /\ Small(header_size)
        /\ Val(header_size) <= Len(data)
        /\ Val(header_size) >= V13_MIN_HEADER + 8

TrailingFields(data) ==
    LET at == Len(data) - Val(U32(Slice(data, Len(data) - 8, Len(data) - 4)))
    IN  [signature |-> LSPK_SIGNATURE,
         version |-> U32(SubSeq(data, at + 1, at + 4)),
         file_list_offset |-> U64(SubSeq(data, at + 5, at + 12)),
         file_list_size |-> U32(SubSeq(data, at + 13, at + 16)),
         num_files |-> U32(SubSeq(data, at + 21, at + 24)),
         data_offset |-> Num(0)]

LeadingFields(data) ==
    [signature |-> LSPK_SIGNATURE,
     version |-> U32(SubSeq(data, 5, 8)),
     file_list_offset |-> U64(SubSeq(data, 9, 16)),
     file_list_size |-> U32(SubSeq(data, 17, 20)),
     num_files |-> U32(SubSeq(data, 29, 32)),
     data_offset |-> Num(280)]

\* C3: once a file of at least 32 bytes has been read, the header is the
\* trailing one (data_offset 0) if only the last 4 bytes are the magic and
\* the trailing header is well formed, the leading one (data_offset 280) if
\* only the first 4 bytes are the magic, and there is no header and the call
\* fails if neither is.
C3_VariantCorrect ==
    (call.ran /\ call.opened /\ Len(disk) >= V10_MIN_FILE) =>
        /\ (HasTrailingMagic(disk) /\ ~HasLeadingMagic(disk)
              /\ TrailingWellFormed(disk))
           => header = <<TrailingFields(disk)>>
        /\ (HasLeadingMagic(disk) /\ ~HasTrailingMagic(disk))
           => header = <<LeadingFields(disk)>>
        /\ (~HasLeadingMagic(disk) /\ ~HasTrailingMagic(disk))
           => /\ header = <<>>
              /\ files = <<>>
              /\ call.ret \in {"list", "None"}
              /\ call.value = <<>>

\* C3: a leading header has been decoded
C3_Witness ==
    /\ call.ran
    /\ call.opened
    /\ HasLeadingMagic(disk)
    /\ ~HasTrailingMagic(disk)
    /\ header # <<>>
    /\ header[1].data_offset = Num(V10_DATA_OFFSET)

\* the directory of data under the header h yields no entry by lines 206-231
DirectoryUnreadable(data, h) ==
    \/ Gt(AddInt(h.file_list_offset, 8), Len(data))
    \/ LET s == Val(h.file_list_offset)
           entry_count == U32(SubSeq(data, s + 1, s + 4))
           compressed_size == U32(SubSeq(data, s + 5, s + 8))
       IN  \/ IsZero(entry_count)
           \/ Gt(AddInt(compressed_size, s + 8), Len(data))
           \/ _decompress_data(Slice(data, s + 8, s + 8 + Val(compressed_size)),
                               MulInt(entry_count, EXPECTED_PER_FILE)).exc

\* the width of the fixed fields of a record
FieldsWidth(version) == IF version >= 13 /\ version < 18 THEN 280 ELSE 272

\* the decoded names of the records i..n of ms with a name and an offset
RECURSIVE KeptNames(_, _, _)
KeptNames(ms, n, i) ==
    IF i > n THEN <<>>
    ELSE LET name == DecodeIgnore(ms[i].name, 1)
         IN  IF name # <<>> /\ ms[i].fix.offset # <<Num(0)>>
             THEN <<name>> \o KeptNames(ms, n, i + 1)
             ELSE KeptNames(ms, n, i + 1)

\* C4: every entry has a name and an offset above 0, and for a directory
\* that decompresses and whose stride covers the fixed fields the entries are, in order, the
\* records among the first min(entry_count, records present) that have a
\* name and an offset above 0.
C4_KeptRecords ==
    /\ \A i \in 1..Len(files) : files[i].name # <<>> /\ ~IsZero(files[i].offset)
    /\ \A a \in Specs :
          ( /\ disk = Built[a]
            /\ HAS_LZ4
            /\ a.stride >= FieldsWidth(a.version)
            /\ call.op = "list_files"
            /\ Loaded
            /\ header # <<>>
            /\ ~DirectoryUnreadable(disk, header[1]) )
          => /\ call.value = KeptNames(a.members, Min(a.count, Len(a.members)), 1)
             /\ Names(files) = call.value

\* C4: a directory of two records, one of them with offset 0, has listed
\* one name
C4_Witness ==
    \E a \in OddSpecs :
        /\ disk = Built[a]
        /\ a.count = 2
        /\ \E i \in 1..2 : a.members[i].fix.offset = <<Num(0)>>
        /\ call.op = "list_files"
        /\ Len(call.value) = 1

\* C5: extract_file extracts the first entry whose lower-cased name is the
\* lower-cased argument, and returns None when there is none.
C5_CaseInsensitive ==
    call.op = "extract_file" =>
        /\ call.target = FirstMatch(files, call.arg)
        /\ call.target = 0 => call.ret = "None"
        /\ (call.target > 0 /\ call.io = "ok") => call.ret = "bytes"

\* C5: the argument differs in case from the entry found, and a later entry
\* has the very name asked for
C5_Witness ==
    /\ call.op = "extract_file"
    /\ call.target = 1
    /\ call.ret = "bytes"
    /\ files[1].name # call.arg
    /\ Len(files) = 2
    /\ files[2].name = call.arg

\* C6: when the entry is found and open, seek and read succeed, the call
\* returns bytes: the bytes read when decompression fails, also when fewer
\* than size_on_disk bytes could be read.
C6_AlwaysBytes ==
    (call.op = "extract_file" /\ call.target > 0 /\ call.io = "ok") =>
        /\ call.ret = "bytes"
        /\ call.dec_failed => call.value = call.raw
        /\ ~call.needs => call.value = call.raw

\* C6: a short read whose decompression failed
C6_Witness ==
    /\ call.op = "extract_file"
    /\ call.target > 0
    /\ call.io = "ok"
    /\ Gt(files[call.target].size_on_disk, Len(call.raw))
    /\ call.dec_failed
    /\ call.ret = "bytes"
    /\ call.value = call.raw

\* C7: when the entry count is 0, the directory starts or ends beyond the
\* file, or its decompression fails, the entry list is empty and the call
\* returns an empty list or None.
C7_EmptyDirectory ==
    ( /\ call.ran
      /\ call.opened
      /\ header # <<>>
      /\ DirectoryUnreadable(disk, header[1]) )
    => /\ files = <<>>
       /\ call.ret \in {"list", "None"}
       /\ call.value = <<>>

\* C7: a directory of two records whose entry count is 0 has been decoded
C7_Witness ==
    \E a \in OddSpecs :
        /\ disk = Built[a]
        /\ a.count = 0
        /\ Len(a.members) = 2
        /\ HAS_LZ4
        /\ call.op = "list_files"
        /\ call.ran
        /\ call.opened
        /\ header # <<>>
        /\ call.value = <<>>

\* C8: the header and the directory are decoded once per reader, also when
\* the directory holds no entry.
C8_DecodedOnce == nreads <= 1

\* C9: an extract_file on a reader whose header and non-empty entry list
\* are loaded leaves both as they are.
C9_ExtractFrame ==
    [][(header # <<>> /\ files # <<>> /\ \E f \in Filenames : extract_file(f))
       => (header' = header /\ files' = files)]_vars

\* C9: an extraction with the loaded entries from a file that was replaced
\* by zeros meanwhile
C9_Witness ==
    /\ nwrites > 0
    /\ disk = Zeros(40)
    /\ header # <<>>
    /\ files # <<>>
    /\ call.op = "extract_file"
    /\ ~call.ran
    /\ call.target > 0
    /\ call.io = "ok"
    /\ call.ret = "bytes"

\* C10: a member stored raw, with size_on_disk = uncompressed_size, is
\* returned as it is read and no decompression is attempted.
C10_RawUntouched ==
    \A a \in ValidSpecs :
        ( /\ disk = Built[a]
          /\ HAS_LZ4
          /\ call.op = "extract_file"
          /\ call.target > 0
          /\ call.io = "ok"
          /\ a.members[call.target].mode = "raw"
          /\ files[call.target].size_on_disk = files[call.target].uncompressed_size )
        => /\ ~call.needs
           /\ call.value = call.raw
           /\ call.value = Payload(a.members[call.target])


\* C11: the trailing header is tried first: once a file whose first 4 and
\* last 4 bytes are both the magic and whose trailing header parses has been
\* read, the header is the trailing one (data_offset 0) and the parser of the
\* leading header has not been called.
C11_TrailingFirst ==
    ( /\ call.ran
      /\ call.opened
      /\ Len(disk) >= V13_MIN_FILE
      /\ HasLeadingMagic(disk)
      /\ HasTrailingMagic(disk)
      /\ TrailingWellFormed(disk) )
    => /\ header = <<TrailingFields(disk)>>
       /\ header[1].data_offset = Num(0)
       /\ call.tried = <<"v13">>

\* C11: a file with the magic at both ends, long enough for a leading header,
\* has been read and its trailing header decoded
C11_Witness ==
    /\ call.ran
    /\ call.opened
    /\ Len(disk) >= V10_MIN_FILE
    /\ HasLeadingMagic(disk)
    /\ HasTrailingMagic(disk)
    /\ TrailingWellFormed(disk)
    /\ header # <<>>
    /\ header[1].data_offset = Num(0)
    /\ call.tried = <<"v13">>

\* a file that ends with the magic has been read and the header size before
\* the magic puts the header before byte 0 or leaves it less than 28 bytes
InvalidTrailingRead ==
    /\ call.ran
    /\ call.opened
    /\ Len(disk) >= V13_MIN_FILE
    /\ HasTrailingMagic(disk)
    /\ ~TrailingWellFormed(disk)

\* the call has failed and the reader holds no header and no entry
Rejected ==
    /\ header = <<>>
    /\ files = <<>>
    /\ call.ret \in {"list", "None"}
    /\ call.value = <<>>

\* C16 as stated: when the last 4 bytes are the magic and the header size puts
\* the header before byte 0 or leaves it less than 28 bytes, the archive is
\* rejected and there is no header, whatever the first 4 bytes are.
C16_InvalidTrailingRejected == InvalidTrailingRead => Rejected

\* C16: when the last 4 bytes are the magic and the header size puts the
\* header before byte 0 or leaves it less than 28 bytes, the trailing header
\* is given up; the archive is rejected with no header unless the first 4
\* bytes are the magic too and the file has at least 32 bytes, and then the
\* header is the leading one, read from the first 32 bytes, data_offset 280.
C16_InvalidTrailingFallsBack ==
    InvalidTrailingRead =>
        /\ Head(call.tried) = "v13"
        /\ IF HasLeadingMagic(disk) /\ Len(disk) >= V10_MIN_FILE
           THEN /\ header = <<LeadingFields(disk)>>
                /\ call.tried = <<"v13", "v10">>
           ELSE Rejected

\* C16: a file with the magic at both ends and a header size of 0 has been
\* read and its leading header decoded
C16_Witness ==
    /\ InvalidTrailingRead
    /\ HasLeadingMagic(disk)
    /\ header # <<>>
    /\ header[1].data_offset = Num(V10_DATA_OFFSET)

\* the entry count stored at the head of the directory of the file
StoredCount ==
    U32(Slice(disk, Val(header[1].file_list_offset),
              Val(header[1].file_list_offset) + 4))

\* the directory length divided by the entry count, 0 for a count of 0
CalculatedStride ==
    IF IsZero(StoredCount) THEN 0
    ELSE IF Small(StoredCount)
    THEN call.scan.decompressed_len \div Val(StoredCount)
    ELSE 0

\* C14: once a directory has been decompressed, the record width used is the
\* directory length divided by the entry count (0 for a count of 0) if and
\* only if that quotient lies strictly between 250 and 350, and otherwise 296
\* for a version of 13 or more and 272 for an earlier one; it is never 0.
C14_StrideInference ==
    (call.ran /\ call.scan.decoded) =>
        /\ call.scan.num_files = StoredCount
        /\ (call.scan.entry_size = CalculatedStride)
              <=> (250 < CalculatedStride /\ CalculatedStride < 350)
        /\ ~(250 < CalculatedStride /\ CalculatedStride < 350) =>
              call.scan.entry_size =
                  IF Ge(header[1].version, 13) THEN 296 ELSE 272
        /\ call.scan.entry_size # 0

\* C14: a directory of 2 records and 700 bytes has been decompressed and the
\* quotient 350 replaced by the width of the version
C14_Witness ==
    /\ call.ran
    /\ call.scan.decoded
    /\ CalculatedStride = 350
    /\ call.scan.entry_size \in {272, 296}

\* min(entry_count, decompressed_len div stride) for the directory scanned
ScanBound ==
    IF Small(StoredCount)
    THEN Min(Val(StoredCount),
             call.scan.decompressed_len \div call.scan.entry_size)
    ELSE call.scan.decompressed_len \div call.scan.entry_size

\* C15: once a directory has been decompressed, the scan has examined exactly
\* min(entry_count, decompressed_len div stride) records, record i from the
\* window [i*stride, (i+1)*stride) whatever happened to the records before
\* it, no window reaching past the directory; a directory of entry_count * 296
\* bytes is scanned as entry_count records of width 296.
C15_SequentialWindows ==
    (call.ran /\ call.scan.decoded) =>
        /\ Len(call.scan.windows) = ScanBound
        /\ \A i \in 0..(ScanBound - 1) :
              /\ (i + 1) \in DOMAIN call.scan.windows
              /\ call.scan.windows[i + 1] = i * call.scan.entry_size
              /\ (i + 1) * call.scan.entry_size <= call.scan.decompressed_len
        /\ ( /\ Small(StoredCount)
             /\ Val(StoredCount) > 0
             /\ call.scan.decompressed_len = Val(StoredCount) * 296 )
           => /\ call.scan.entry_size = 296
              /\ Len(call.scan.windows) = Val(StoredCount)

\* extract_file has read the payload of an entry, with lz4 available
PayloadRead ==
    /\ call.op = "extract_file"
    /\ call.target > 0
    /\ call.io = "ok"
    /\ HAS_LZ4

\* rule (a): the sizes of the entry differ and uncompressed_size is above 0
SizesDisagree ==
    /\ files[call.target].size_on_disk # files[call.target].uncompressed_size
    /\ ~IsZero(files[call.target].uncompressed_size)

\* rule (b): the payload starts with 04 22 4D 18
StartsWithFrameMagic ==
    /\ Len(call.raw) >= 4
    /\ SubSeq(call.raw, 1, 4) = <<4, 34, 77, 24>>

\* rule (c): a byte outside 0x20..0x7E among the first 50 bytes and no '<'
\* among the first 100
LooksBinary ==
    /\ \E i \in 1..50 : i <= Len(call.raw) /\ (call.raw[i] < 32 \/ call.raw[i] > 126)
    /\ \A i \in 1..100 : i <= Len(call.raw) => call.raw[i] # 60

\* C17 as stated: for a payload of any length, decompression is selected
\* exactly when the sizes disagree, or the payload starts with the frame
\* magic, or it looks binary; otherwise the raw bytes are returned.
C17_SelectionAnyLength ==
    PayloadRead =>
        /\ call.needs <=> (SizesDisagree \/ StartsWithFrameMagic \/ LooksBinary)
        /\ ~call.needs => call.value = call.raw

\* C17: with lz4 available, decompression is selected exactly when the sizes
\* disagree, or the payload is longer than 4 bytes and starts with the frame
\* magic or looks binary; otherwise the raw bytes are returned.
C17_SelectionAboveFourBytes ==
    PayloadRead =>
        /\ call.needs <=>
              \/ SizesDisagree
              \/ Len(call.raw) > 4 /\ (StartsWithFrameMagic \/ LooksBinary)
        /\ ~call.needs => call.value = call.raw

\* C17: a payload of at most 4 bytes with a control byte, its sizes equal,
\* has been returned as read
C17_Witness ==
    /\ PayloadRead
    /\ ~SizesDisagree
    /\ Len(call.raw) <= 4
    /\ LooksBinary
    /\ ~call.needs
    /\ call.ret = "bytes"
    /\ call.value = call.raw

\* what the methods make of the payload data for the expected size: the
\* output of the first of frame, block with the size (not tried for a size
\* of 0) and block with the size prefix that succeeds, else data itself if
\* it is valid UTF-8, else an error
FirstSuccess(data, size) ==
    LET First(frame, block_with_size, block_auto) ==
            IF frame.ok THEN [failed |-> FALSE, out |-> frame.out, by |-> "frame"]
            ELSE IF ~IsZero(size) /\ block_with_size.ok
            THEN [failed |-> FALSE, out |-> block_with_size.out, by |-> "block_with_size"]
            ELSE IF block_auto.ok
            THEN [failed |-> FALSE, out |-> block_auto.out, by |-> "block_auto"]
            ELSE IF IsValidUtf8(data, 1)
            THEN [failed |-> FALSE, out |-> data, by |-> "utf-8"]
            ELSE [failed |-> TRUE, out |-> <<>>, by |-> "none"]
    IN  First(lz4_frame_decompress(data),
              lz4_block_decompress_sized(data, size),
              lz4_block_decompress(data))

\* C18: when extract_file has decompressed a payload, the result is that of
\* the first of frame, block with the expected size (not tried for a size of
\* 0) and block with automatic size that succeeds, whatever failed before
\* it; when all fail the payload is returned unchanged if it is valid UTF-8,
\* and the decompression has failed otherwise.
C18_FirstSuccess ==
    (PayloadRead /\ call.needs) =>
        \E x \in {FirstSuccess(call.raw, files[call.target].uncompressed_size)} :
            /\ call.dec_failed = x.failed
            /\ ~x.failed => call.value = x.out

\* C18: a payload that is no frame, with an expected size of 0, has been
\* decompressed as a block with automatic size
C18_Witness ==
    /\ PayloadRead
    /\ call.needs
    /\ ~call.dec_failed
    /\ IsZero(files[call.target].uncompressed_size)
    /\ FirstSuccess(call.raw, files[call.target].uncompressed_size).by = "block_auto"
    /\ call.value # call.raw

\* extract_file has found an entry, opened the file and read at a position
MemberRead ==
    /\ call.op = "extract_file"
    /\ call.target > 0
    /\ call.io = "ok"

\* the bytes of the file from position pos on, at most size of them
BytesAt(pos, size) ==
    IF ~Small(pos) \/ Val(pos) >= Len(disk) THEN <<>>
    ELSE SubSeq(disk, Val(pos) + 1,
                IF Small(size) THEN Min(Val(pos) + Val(size), Len(disk))
                ELSE Len(disk))

\* C19: extract_file reads a member at entry.offset + header.data_offset
\* when the version is below 13 and at entry.offset when it is 13 or more,
\* whichever header variant was detected, and what it reads there is at
\* most size_on_disk bytes of the file.
C19_ReadPosition ==
    MemberRead =>
        \E e \in {files[call.target]}, h \in {header[1]} :
        \E expected \in {IF Small(h.version) /\ Val(h.version) < 13
                         THEN AddInt(e.offset, Val(h.data_offset))
                         ELSE e.offset} :
            /\ call.pos = expected
            /\ Small(e.size_on_disk) => Len(call.raw) <= Val(e.size_on_disk)
            /\ call.raw = BytesAt(expected, e.size_on_disk)

\* C19: a member of an archive with a leading header and a version of 13 or
\* more has been read at its stored offset
C19_Witness ==
    /\ MemberRead
    /\ header[1].data_offset = Num(V10_DATA_OFFSET)
    /\ Ge(header[1].version, 13)
    /\ call.pos = files[call.target].offset
    /\ call.raw # <<>>

\* C20: extract_file reads every member at entry.offset + 280 when the
\* header was decoded as a leading one and at entry.offset + 0 when it was
\* decoded as a trailing one, whatever the version is.
C20_OffsetEveryVersion ==
    MemberRead =>
        /\ header[1].data_offset \in {Num(0), Num(280)}
        /\ header[1].data_offset = Num(280) =>
              call.pos = AddInt(files[call.target].offset, 280)
        /\ header[1].data_offset = Num(0) =>
              call.pos = files[call.target].offset

\* the kinds of the .pak entries of a folder and of its first-level
\* subfolders, in the order of the listing
RECURSIVE KindsOf(_, _)
KindsOf(entries, depth) ==
    IF entries = <<>> THEN <<>>
    ELSE LET e == Head(entries)
         IN  (IF e.pak THEN <<e.kind>>
              ELSE IF e.dir /\ depth = 0 THEN KindsOf(e.children, 1)
              ELSE <<>>)
             \o KindsOf(Tail(entries), depth)

\* the archives that fail at a stage: no or an invalid header, a directory
\* that cannot be read (every directory without lz4), no meta.lsx member, a
\* meta.lsx member whose bytes cannot be read or that has none, a file or
\* folder that cannot be opened
FailsAtAStage(kind) ==
    \/ ~HAS_LZ4
    \/ kind \in {"unrecognized", "invalid header", "bad directory", "no meta",
                 "lost meta", "empty meta", "unreadable", "folder.pak"}

\* the archives that succeed, and the name of their mod
Succeeds(kind) == HAS_LZ4 /\ kind \in {"A", "B"}

ModOf(kind) == IF kind = "A" THEN <<65>> ELSE <<66>>

\* C12: a call of extract_mod_data never ends in an error, and when it has
\* returned, no archive that fails at a stage has contributed a record, the
\* archives that succeed have contributed their records, one each in the
\* order of the scan, whatever failed before or after them, and the names of
\* their mods are keys of mods_data.json.
C12_BatchGoesOn ==
    /\ pc # "raised"
    /\ pc = "returned" =>
          /\ \A i \in 1..Len(appended) : ~FailsAtAStage(appended[i].kind)
          /\ SelectSeq([i \in 1..Len(appended) |-> appended[i].kind], Succeeds)
                = SelectSeq(KindsOf(pak_folder, 0), Succeeds)
          /\ \A i \in 1..Len(appended) :
                Succeeds(appended[i].kind) =>
                    /\ appended[i].mod.name = ModOf(appended[i].kind)
                    /\ \E j \in 1..Len(mods_data) : mods_data[j] = ModOf(appended[i].kind)

\* C12: a call has returned from a folder in which an archive with no
\* header comes between two archives that succeed, and both are exported
C12_Witness ==
    /\ pc = "returned"
    /\ KindsOf(pak_folder, 0) = <<"A", "unrecognized", "B">>
    /\ Len(appended) = 2
    /\ \E j \in 1..Len(mods_data) : mods_data[j] = <<66>>

\* C13: when a call of extract_mod_data with its default arguments has
\* returned, the mods exported are those of the archives of the folder of
\* this call, whatever earlier calls processed.
C13_ExportOfThisCall ==
    pc = "returned" =>
        { mods_data[j] : j \in 1..Len(mods_data) }
            = { appended[i].mod.name : i \in 1..Len(appended) }

\* the content of the name field written for the name n up to its first NUL
\* byte, decoded: the whole field when the name fills it (letters only)
FieldName(n) == IF Len(n) = NAME_FIELD THEN n ELSE DecodeIgnore(n, 1)

\* the names of the records i..n of ms with an offset above 0 and a name
\* field that does not start with a NUL byte
RECURSIVE FieldNames(_, _, _)
FieldNames(ms, n, i) ==
    IF i > n THEN <<>>
    ELSE IF FieldName(ms[i].name) # <<>> /\ ms[i].fix.offset # <<Num(0)>>
         THEN <<FieldName(ms[i].name)>> \o FieldNames(ms, n, i + 1)
         ELSE FieldNames(ms, n, i + 1)

\* C21: in every version, the names listed for a directory that decompresses
\* are the contents of the name fields of its records up to the first NUL
\* byte, and a record whose name field has no NUL byte and whose offset is
\* above 0 is listed under the 256 bytes of the field.
C21_NameUpToNul ==
    \A a \in Specs \cup LongNameSpecs :
        ( /\ disk = Build(a)
          /\ HAS_LZ4
          /\ a.stride >= FieldsWidth(a.version)
          /\ call.op = "list_files"
          /\ Loaded
          /\ header # <<>>
          /\ ~DirectoryUnreadable(disk, header[1]) )
        => call.value = FieldNames(a.members, Min(a.count, Len(a.members)), 1)

\* the last call decoded the directory of the archive on disk
DirectoryScanned ==
    /\ HAS_LZ4
    /\ call.ran
    /\ call.scan.decoded
    /\ header # <<>>

\* the bytes the directory of the archive on disk decompresses to
DirectoryBytes ==
    LET s == Val(header[1].file_list_offset)
    IN  _decompress_data(
            Slice(disk, s + 8, s + 8 + Val(U32(Slice(disk, s + 4, s + 8)))),
            MulInt(U32(Slice(disk, s, s + 4)), EXPECTED_PER_FILE)).out

\* the records the scan sliced, in the order of the loop
ScannedRecords ==
    [i \in 1..Len(call.scan.windows) |->
        Slice(DirectoryBytes, call.scan.windows[i],
              call.scan.windows[i] + call.scan.entry_size)]

\* C22: for a version of 18 or more every entry has archive_part equal to
\* its uncompressed_size and flags 0, and is the entry of a record with its
\* offset the u32 at byte 256, its size_on_disk the u32 at byte 264 and its
\* uncompressed_size the u32 at byte 268; for a version below 13 every entry
\* has archive_part 0 and flags 0.
C22_FixedFields ==
    DirectoryScanned =>
        \A i \in 1..Len(files) :
            IF Ge(header[1].version, 18)
            THEN /\ files[i].archive_part = files[i].uncompressed_size
                 /\ files[i].flags = Num(0)
                 /\ \E j \in 1..Len(call.scan.windows) :
                       \E rec \in {ScannedRecords[j]} :
                          /\ Len(rec) >= 272
                          /\ files[i].offset = U32(SubSeq(rec, 257, 260))
                          /\ files[i].size_on_disk = U32(SubSeq(rec, 265, 268))
                          /\ files[i].uncompressed_size = U32(SubSeq(rec, 269, 272))
            ELSE Ge(header[1].version, 13)
                 \/ (files[i].archive_part = Num(0) /\ files[i].flags = Num(0))

\* C22: a version 18 archive has listed an entry whose size on disk differs
\* from its uncompressed size, and whose archive_part is the latter
C22_Witness ==
    /\ DirectoryScanned
    /\ Ge(header[1].version, 18)
    /\ Len(files) >= 1
    /\ files[1].size_on_disk # files[1].uncompressed_size
    /\ ~IsZero(files[1].uncompressed_size)
    /\ files[1].archive_part = files[1].uncompressed_size

\* the directory length divided by the entry count is taken as the record
\* width and is narrower than the fixed fields of the version
NarrowStride ==
    /\ 250 < CalculatedStride
    /\ CalculatedStride < 350
    /\ CalculatedStride < (IF Ge(header[1].version, 13) /\ ~Ge(header[1].version, 18)
                           THEN 280 ELSE 272)

\* C23: a directory whose inferred record width is accepted and is narrower
\* than the fixed fields of the version is decoded without an error, and no
\* entry comes out of it.
C23_NarrowStride ==
    (DirectoryScanned /\ NarrowStride) =>
        /\ call.ret # "raise"
        /\ call.scan.entries = <<>>
        /\ files = <<>>
        /\ call.value = <<>>

\* C23: the directory of a version 13 archive has been scanned record by
\* record at a width of 279, one byte short of the fixed fields
C23_Witness ==
    /\ DirectoryScanned
    /\ NarrowStride
    /\ call.op = "list_files"
    /\ call.scan.entry_size = 279
    /\ Len(call.scan.windows) = 2

\* the header and the entries read from the archive b
EntriesOf(b) ==
    LET Read(d) == [header |-> d.header[1],
                    entries |-> _read_file_entries(b, d.header[1]).entries]
    IN  Read(DetectHeader(b, <<>>))

\* the header h has the version and the file_list_offset of g
SameDirectory(h, g) ==
    h.version = g.version /\ h.file_list_offset = g.file_list_offset

\* C24: the entry count that drives the scan of a directory is the u32
\* stored at the directory offset, and an archive whose header differs from
\* the header of another in num_files or file_list_size only, over the same
\* bytes elsewhere, gives the entries of the other.
C24_DirectoryCounts ==
    /\ DirectoryScanned =>
          /\ call.scan.num_files = StoredCount
          /\ Small(StoredCount) => Len(call.scan.windows) <= Val(StoredCount)
    /\ \A k \in 1..2 :
             ( /\ HAS_LZ4
               /\ disk \in HeaderCounts(BaseArchives[k],
                                        IF k = 1 THEN Len(disk) - 24 ELSE 16,
                                        IF k = 1 THEN Len(disk) - 16 ELSE 28)
               /\ call.op = "list_files"
               /\ call.ran
               /\ call.opened )
             => \E b \in {EntriesOf(BaseArchives[k])} :
                   /\ header # <<>>
                   /\ SameDirectory(header[1], b.header)
                   /\ files = b.entries

\* C24: a header that counts 0 files over a directory of 2 records has
\* given the two entries of the directory
C24_Witness ==
    /\ HAS_LZ4
    /\ call.op = "list_files"
    /\ call.ran
    /\ header # <<>>
    /\ IsZero(header[1].num_files)
    /\ StoredCount = Num(2)
    /\ Len(files) = 2
    /\ files = EntriesOf(BaseArchives[1]).entries

\* the process_existing_txt_file that has just run found an UNSORTED
\* separator in the document
ExistingRan == sort.op = "existing" /\ UnsortedCategory(sort.before) # <<>>

\* C25: process_existing_txt_file conserves the nodes of the document: after
\* a call on a document with an UNSORTED separator, whatever the
\* categorization read, every node of the document before the call is in the
\* document exactly once and there is no other node.
C25_NodesConserved ==
    ExistingRan =>
        /\ Len(xml) = Len(sort.before)
        /\ \A i \in 1..Len(sort.before) :
              Cardinality({ j \in 1..Len(xml) : xml[j] = sort.before[i] }) = 1

\* the index of the separator that opens the section of position i of a
\* document, 0 before the first separator
SectionOf(children, i) ==
    LET Seps == { j \in 1..i : IsSeparator(children[j].name) }
    IN  IF Seps = {} THEN 0 ELSE CHOOSE j \in Seps : \A k \in Seps : k <= j

\* the positions of the planned nodes that are in the document
Landed(p) == { j \in 1..Len(xml) : xml[j] = sort.plan[p].node }

\* C26: after process_existing_txt_file every node moved out of the UNSORTED
\* section lies in the section of its target category (after that
\* separator and before the next one), wherever the UNSORTED section is, and
\* the nodes that were not moved keep their relative order.
C26_MovedIntoTargetSection ==
    ExistingRan =>
        /\ \A p \in 1..Len(sort.plan) : \A j \in Landed(p) :
              /\ SectionOf(xml, j) > 0
              /\ Clean(xml[SectionOf(xml, j)].name) = sort.plan[p].category
        /\ LET Kept(children) ==
                   SelectSeq(children,
                             LAMBDA n : ~\E p \in 1..Len(sort.plan) :
                                           sort.plan[p].node = n)
           IN  Kept(xml) = Kept(sort.before)

\* process_empty_txt_file has just written the categorization it got from
\* ask_groq
EmptyRan == sort.op = "empty" /\ groq.pc = "returned"

\* the places (list, position) of the categorization where the mod stands
PlacesOf(categorization, mod) ==
    { <<c, m>> \in (1..Len(categorization)) \X (1..3) :
        /\ m <= Len(categorization[c].value)
        /\ categorization[c].value[m] = mod }

\* C27: whatever ask_groq returned, the categorization that
\* process_empty_txt_file writes has every mod of the UNSORTED section in
\* exactly one list, and every list is under a category of the document or
\* under UNSORTED.
C27_EveryModInOneList ==
    EmptyRan =>
        /\ \A i \in 1..Len(sort.unsorted) :
              Cardinality(PlacesOf(txt, sort.unsorted[i])) = 1
        /\ \A c \in 1..Len(txt) :
              \/ txt[c].key = UNSORTED
              \/ \E k \in 1..Len(groq.categories) : groq.categories[k] = txt[c].key

\* the attempt i of the running ask_groq gave a validated result that
\* categorizes at least 95% of the mods
GoodAttempt(i) ==
    /\ groq.seen[i].kind = "ok"
    /\ 20 * groq.seen[i].rate >= 19 * Len(groq.mod_names)

\* the attempts with a validated result of the highest rate seen
BestAttempts ==
    { i \in 1..Len(groq.seen) :
        /\ groq.seen[i].kind = "ok"
        /\ \A j \in 1..Len(groq.seen) : groq.seen[j].rate <= groq.seen[i].rate }

\* value is the fallback: a list for every category, all of them empty but
\* that of UNSORTED, which has every mod
IsFallback(value) ==
    /\ \E c \in 1..Len(value) :
          value[c].key = UNSORTED /\ value[c].value = groq.mod_names
    /\ \A c \in 1..Len(value) : value[c].key # UNSORTED => value[c].value = <<>>

AskGroqReturned ==
    /\ groq.ret # <<>>
    /\ \A i \in 1..(Len(groq.seen) - 1) : ~GoodAttempt(i)
    /\ IF GoodAttempt(Len(groq.seen))
       THEN groq.ret[1] = groq.seen[Len(groq.seen)].result
       ELSE /\ Len(groq.seen) = MAX_RETRIES
            /\ IF \E i \in BestAttempts : 2 * groq.seen[i].rate >= Len(groq.mod_names)
               THEN \E i \in BestAttempts : groq.ret[1] = groq.seen[i].result
               ELSE IsFallback(groq.ret[1])

\* every attempt, failed or not, is one API call and one retry
AskGroqCounts ==
    /\ groq.attempt = Len(groq.seen)
    /\ groq.calls = groq.attempt + (IF groq.pc = "validating" THEN 1 ELSE 0)
    /\ groq.calls <= MAX_RETRIES
    /\ groq.pc = "calling" => groq.calls < MAX_RETRIES
    /\ groq.pc = "returned" => AskGroqReturned

IndexInRange ==
    /\ -1 <= current_command_index
    /\ current_command_index <= Len(command_history) - 1

\* what add_command, undo_action and redo_action do to the history in a step
\* of the interface
HistoryStep ==
    /\ ui'.ok /\ ui'.op \in MoveOps \cup {"move_line"} =>
          /\ Len(command_history') = current_command_index + 2
          /\ SubSeq(command_history', 1, current_command_index + 1)
                = SubSeq(command_history, 1, current_command_index + 1)
          /\ current_command_index' = Len(command_history') - 1
    /\ ui'.op = "undo_action" /\ current_command_index = -1 =>
          UNCHANGED <<command_history, current_command_index, mod_items, xml_nodes>>
    /\ /\ ui'.op = "redo_action"
       /\ current_command_index = Len(command_history) - 1
       => UNCHANGED <<command_history, current_command_index, mod_items, xml_nodes>>

C30_ListsAligned ==
    /\ Len(mod_items) = Len(xml_nodes)
    /\ Len(mod_items) = Len(ui.loaded_items)
    /\ \A k \in 1..Len(ui.loaded_items) :
          \E i \in 1..Len(mod_items) :
             /\ mod_items[i] = ui.loaded_items[k]
             /\ xml_nodes[i] = ui.loaded_nodes[k]
             /\ \A j \in 1..Len(mod_items) :
                   j # i => /\ mod_items[j] # ui.loaded_items[k]
                            /\ xml_nodes[j] # ui.loaded_nodes[k]
    /\ ui.op = "undo_action" /\ ui.before_items # <<>> =>
          mod_items = ui.before_items /\ xml_nodes = ui.before_nodes
    /\ ui.op = "redo_action" /\ ui.before_items # <<>> =>
          mod_items = ui.after_items /\ xml_nodes = ui.after_nodes

\* a move that changed the order has been undone and done again
C30_Witness ==
    /\ ui.op = "redo_action"
    /\ ui.before_items # <<>>
    /\ ui.after_items # ui.before_items
    /\ mod_items = ui.after_items
    /\ mod_items # ui.loaded_items

=============================================================================
